---------------------------- MODULE Spec2Model ----------------------------
(***************************************************************************)
(* MentalGL: the growable string (MGLStringInternal), the string-pair      *)
(* table (MGLStringPairArray), the value formatters (mglNextParam...) and  *)
(* the report assembler (mglPrintStringPairs) of the header-only library.  *)
(*                                                                         *)
(* Representation.  A char is its byte value (a natural number), a C       *)
(* string is the sequence of its bytes without the terminating NUL, and a  *)
(* buffer is the sequence of all `cap` bytes of the allocation.  C index i *)
(* of a buffer is position i + 1 of the sequence.                          *)
(***************************************************************************)
EXTENDS Integers, Sequences, FiniteSets, TLC

(***************************************************************************)
(* Bounds of the exploration.                                              *)
(***************************************************************************)
\* Number of slots of the table (MGL_MAX_NUM_RENDER_STATES is 264 in the
\* source, part_001:430); the table is filled up to this many records.
MaxStates == 2

(***************************************************************************)
(* Program constants.                                                      *)
(***************************************************************************)
MGL_STRING_MIN_CAPACITY == 16

\* (size_t)~0 in the source: the largest size_t.  Every comparison and
\* MGL_MIN against it behaves the same for any value above all lengths.
MGL_STRING_NPOS == 2147483647

MGLFormattingOrderDefault == "MGLFormattingOrderDefault"
MGLFormattingOrderSorted  == "MGLFormattingOrderSorted"

\* A null `char*` / a null buffer pointer.  No C string holds the byte -1 and
\* no allocation is empty (capacities are at least MGL_STRING_MIN_CAPACITY).
NULL == << -1 >>

\* Byte values of the characters that occur in the model.
Chr == [nul |-> 0, nl |-> 10, sp |-> 32, comma |-> 44, dot |-> 46,
        zero |-> 48, x |-> 120, rbrace |-> 125]

MGL_MIN(A, B) == IF A < B THEN A ELSE B
MGL_MAX(A, B) == IF A > B THEN A ELSE B

(***************************************************************************)
(* libc: calloc, strlen, strstr, strcmp.                                   *)
(***************************************************************************)
\* calloc(n, 1): n zero bytes.
Calloc(n) == [i \in 1..n |-> 0]

\* The C string stored in a buffer: the bytes before the first NUL.
RECURSIVE StrLenFrom(_, _)
StrLenFrom(buf, i) ==
    IF i > Len(buf) \/ buf[i] = 0 THEN i - 1 ELSE StrLenFrom(buf, i + 1)

CStr(buf) == SubSeq(buf, 1, StrLenFrom(buf, 1))

\* strstr(hay, needle) != NULL
StrStr(hay, needle) ==
    \E k \in 0..(Len(hay) - Len(needle)) :
        SubSeq(hay, k + 1, k + Len(needle)) = needle

\* strcmp(a, b): difference of the first pair of bytes that differ, the
\* terminating NUL (0) included.
RECURSIVE StrCmpFrom(_, _, _)
StrCmpFrom(a, b, i) ==
    LET ca == IF i <= Len(a) THEN a[i] ELSE 0
        cb == IF i <= Len(b) THEN b[i] ELSE 0
    IN  IF ca # cb THEN ca - cb
        ELSE IF ca = 0 THEN 0
        ELSE StrCmpFrom(a, b, i + 1)

StrCmp(a, b) == StrCmpFrom(a, b, 1)

(***************************************************************************)
(* MGLStringInternal {cap, len, buf}.                                      *)
(***************************************************************************)
\* memcpy(dst + off, src, n)
MemCpy(dst, off, src, n) ==
    [i \in 1..Len(dst) |->
        IF i > off /\ i <= off + n THEN src[i - off] ELSE dst[i]]

mglStringInternalReset == [cap |-> 0, len |-> 0, buf |-> NULL]

mglStringInternalInit(init_cap) ==
    LET cap == MGL_MAX(MGL_STRING_MIN_CAPACITY, init_cap)
    IN  [cap |-> cap, len |-> 0, buf |-> Calloc(cap)]

mglStringInternalInitWith(val) ==
    IF val # NULL
    THEN LET len == Len(val)
             cap == MGL_MAX(MGL_STRING_MIN_CAPACITY, len + 1)
         IN  [cap |-> cap, len |-> len,
              buf |-> [i \in 1..cap |-> IF i <= len THEN val[i] ELSE 0]]
    ELSE mglStringInternalInit(0)

\* Mutant: the shrinking branch halves the capacity without the minimum.
mglStringInternalResize_NoMinimum(s, len, chr) ==
    IF len + 1 > s.cap
    THEN LET new_cap == MGL_MAX(len + 1, s.cap * 2)
         IN  [cap |-> new_cap, len |-> len,
              buf |-> [i \in 1..new_cap |->
                          IF i <= s.len THEN s.buf[i]
                          ELSE IF chr # 0 /\ i <= len THEN chr
                          ELSE 0]]
    ELSE IF len < s.len
    THEN IF s.cap > MGL_STRING_MIN_CAPACITY /\ len < s.cap \div 2
         THEN LET new_cap == s.cap \div 2
              IN  [cap |-> new_cap, len |-> len,
                   buf |-> [i \in 1..new_cap |->
                               IF i <= len THEN s.buf[i] ELSE 0]]
         ELSE [s EXCEPT !.buf[len + 1] = 0]
    ELSE IF len > s.len
    THEN [s EXCEPT !.len = len,
                   !.buf = [i \in 1..s.cap |->
                               IF i = len + 1 THEN 0
                               ELSE IF chr # 0 /\ i > s.len /\ i <= len THEN chr
                               ELSE s.buf[i]]]
    ELSE s

\* Mutant: the shrinking branch reallocates already at half the capacity.
mglStringInternalResize_HalfInclusive(s, len, chr) ==
    IF len + 1 > s.cap
    THEN LET new_cap == MGL_MAX(len + 1, s.cap * 2)
         IN  [cap |-> new_cap, len |-> len,
              buf |-> [i \in 1..new_cap |->
                          IF i <= s.len THEN s.buf[i]
                          ELSE IF chr # 0 /\ i <= len THEN chr
                          ELSE 0]]
    ELSE IF len < s.len
    THEN IF s.cap > MGL_STRING_MIN_CAPACITY /\ len <= s.cap \div 2
         THEN LET new_cap == MGL_MAX(MGL_STRING_MIN_CAPACITY, s.cap \div 2)
              IN  [cap |-> new_cap, len |-> len,
                   buf |-> [i \in 1..new_cap |->
                               IF i <= len THEN s.buf[i] ELSE 0]]
         ELSE [s EXCEPT !.buf[len + 1] = 0]
    ELSE IF len > s.len
    THEN [s EXCEPT !.len = len,
                   !.buf = [i \in 1..s.cap |->
                               IF i = len + 1 THEN 0
                               ELSE IF chr # 0 /\ i > s.len /\ i <= len THEN chr
                               ELSE s.buf[i]]]
    ELSE s

\* Mutant: the growing branch allocates len + 1 bytes, without doubling.
mglStringInternalResize_NoDoubling(s, len, chr) ==
    IF len + 1 > s.cap
    THEN LET new_cap == len + 1
         IN  [cap |-> new_cap, len |-> len,
              buf |-> [i \in 1..new_cap |->
                          IF i <= s.len THEN s.buf[i]
                          ELSE IF chr # 0 /\ i <= len THEN chr
                          ELSE 0]]
    ELSE IF len < s.len
    THEN IF s.cap > MGL_STRING_MIN_CAPACITY /\ len < s.cap \div 2
         THEN LET new_cap == MGL_MAX(MGL_STRING_MIN_CAPACITY, s.cap \div 2)
              IN  [cap |-> new_cap, len |-> len,
                   buf |-> [i \in 1..new_cap |->
                               IF i <= len THEN s.buf[i] ELSE 0]]
         ELSE [s EXCEPT !.buf[len + 1] = 0]
    ELSE IF len > s.len
    THEN [s EXCEPT !.len = len,
                   !.buf = [i \in 1..s.cap |->
                               IF i = len + 1 THEN 0
                               ELSE IF chr # 0 /\ i > s.len /\ i <= len THEN chr
                               ELSE s.buf[i]]]
    ELSE s

\* The four branches of mglStringInternalResize, in the order of the code.
\* The in-place shrink only writes the terminator: `len` is left as it was.
mglStringInternalResize(s, len, chr) ==
    IF len + 1 > s.cap
    THEN LET new_cap == MGL_MAX(len + 1, s.cap * 2)
         IN  [cap |-> new_cap, len |-> len,
              buf |-> [i \in 1..new_cap |->
                          IF i <= s.len THEN s.buf[i]
                          ELSE IF chr # 0 /\ i <= len THEN chr
                          ELSE 0]]
    ELSE IF len < s.len
    THEN IF s.cap > MGL_STRING_MIN_CAPACITY /\ len < s.cap \div 2
         THEN LET new_cap == MGL_MAX(MGL_STRING_MIN_CAPACITY, s.cap \div 2)
              IN  [cap |-> new_cap, len |-> len,
                   buf |-> [i \in 1..new_cap |->
                               IF i <= len THEN s.buf[i] ELSE 0]]
         ELSE [s EXCEPT !.buf[len + 1] = 0]
    ELSE IF len > s.len
    THEN [s EXCEPT !.len = len,
                   !.buf = [i \in 1..s.cap |->
                               IF i = len + 1 THEN 0
                               ELSE IF chr # 0 /\ i > s.len /\ i <= len THEN chr
                               ELSE s.buf[i]]]
    ELSE s

mglStringInternalAppend(s, appendix) ==
    IF appendix.len > 0
    THEN LET lhs_len == s.len
             r == mglStringInternalResize(s, lhs_len + appendix.len, 0)
         IN  [r EXCEPT !.buf = MemCpy(r.buf, lhs_len, appendix.buf, appendix.len)]
    ELSE s

\* Mutant: the sub-string is taken from the start of the appendix.
mglStringInternalAppendSub_FromStart(s, appendix, off, len) ==
    IF appendix.len > off /\ len > 0
    THEN LET lhs_len == s.len
             rhs_len == MGL_MIN(len, appendix.len - off)
         IN  IF rhs_len > 0
             THEN LET r == mglStringInternalResize(s, lhs_len + rhs_len, 0)
                  IN  [r EXCEPT !.buf =
                          MemCpy(r.buf, lhs_len,
                                 SubSeq(appendix.buf, 1, rhs_len),
                                 rhs_len)]
             ELSE s
    ELSE s

mglStringInternalAppendSub(s, appendix, off, len) ==
    IF appendix.len > off /\ len > 0
    THEN LET lhs_len == s.len
             rhs_len == MGL_MIN(len, appendix.len - off)
         IN  IF rhs_len > 0
             THEN LET r == mglStringInternalResize(s, lhs_len + rhs_len, 0)
                  IN  [r EXCEPT !.buf =
                          MemCpy(r.buf, lhs_len,
                                 SubSeq(appendix.buf, off + 1, off + rhs_len),
                                 rhs_len)]
             ELSE s
    ELSE s

\* Mutant: the appendix copied one byte too far to the right.
mglStringInternalAppendCStr_Shifted(s, appendix) ==
    IF appendix # NULL /\ appendix # << >>
    THEN LET lhs_len == s.len
             rhs_len == Len(appendix)
             r == mglStringInternalResize(s, lhs_len + rhs_len, 0)
         IN  [r EXCEPT !.buf = MemCpy(r.buf, lhs_len + 1, appendix, rhs_len)]
    ELSE s

mglStringInternalAppendCStr(s, appendix) ==
    IF appendix # NULL /\ appendix # << >>
    THEN LET lhs_len == s.len
             rhs_len == Len(appendix)
             r == mglStringInternalResize(s, lhs_len + rhs_len, 0)
         IN  [r EXCEPT !.buf = MemCpy(r.buf, lhs_len, appendix, rhs_len)]
    ELSE s

RECURSIVE FindCharFrom(_, _, _, _)
FindCharFrom(s, search_char, off, len) ==
    IF off < len
    THEN IF s.buf[off + 1] = search_char THEN off
         ELSE FindCharFrom(s, search_char, off + 1, len)
    ELSE MGL_STRING_NPOS

mglStringInternalFindChar(s, search_char, off, len) ==
    FindCharFrom(s, search_char, off, MGL_MIN(len, s.len))

(***************************************************************************)
(* MGLStringPairArray {first, second, index}: the table of one report.     *)
(***************************************************************************)
Slots == 0..(MaxStates - 1)

\* memset(out_par, 0, ...), memset(out_val, 0, ...), index 0.
EmptyPairArray ==
    [first  |-> [i \in Slots |-> mglStringInternalReset],
     second |-> [i \in Slots |-> mglStringInternalReset],
     index  |-> 0]

mglNextHeadline(str_array, headline) ==
    [first  |-> [str_array.first  EXCEPT ![str_array.index] = mglStringInternalInitWith(headline)],
     second |-> [str_array.second EXCEPT ![str_array.index] = mglStringInternalReset],
     index  |-> str_array.index + 1]

mglNextParamString(str_array, par, val) ==
    [first  |-> [str_array.first  EXCEPT ![str_array.index] = mglStringInternalInitWith(par)],
     second |-> [str_array.second EXCEPT ![str_array.index] = mglStringInternalInitWith(val)],
     index  |-> str_array.index + 1]

(***************************************************************************)
(* The sort of the index permutation: mglCompareOutputPair and qsort.      *)
(***************************************************************************)
\* Mutant: the operands of strcmp exchanged.
mglCompareOutputPair_Reversed(params, lhs_i, rhs_i) ==
    LET lhs_s == params[lhs_i].buf
        rhs_s == params[rhs_i].buf
    IN  IF lhs_s # NULL
        THEN IF rhs_s # NULL
             THEN StrCmp(CStr(rhs_s), CStr(lhs_s))
             ELSE -1
        ELSE 1

\* Mutant: an absent name is ordered before a present one.
mglCompareOutputPair_AbsentFirst(params, lhs_i, rhs_i) ==
    LET lhs_s == params[lhs_i].buf
        rhs_s == params[rhs_i].buf
    IN  IF lhs_s # NULL
        THEN IF rhs_s # NULL
             THEN StrCmp(CStr(lhs_s), CStr(rhs_s))
             ELSE 1
        ELSE -1

\* `params` is the array g_MGLOutputParamas points to.
mglCompareOutputPair(params, lhs_i, rhs_i) ==
    LET lhs_s == params[lhs_i].buf
        rhs_s == params[rhs_i].buf
    IN  IF lhs_s # NULL
        THEN IF rhs_s # NULL
             THEN StrCmp(CStr(lhs_s), CStr(rhs_s))
             ELSE -1
        ELSE 1

IndexPermutations == {p \in [Slots -> Slots] : \A i, j \in Slots : i # j => p[i] # p[j]}

IdentityPermutation == [i \in Slots |-> i]

\* qsort(out_permutations, MGL_MAX_NUM_RENDER_STATES, sizeof(int), cmp) is
\* not a stable sort and its algorithm is the C library's: any arrangement
\* in which no element stands before one the comparator orders below it.
QSort(params) ==
    {p \in IndexPermutations :
        \A i, j \in Slots : i < j => ~(mglCompareOutputPair(params, p[j], p[i]) < 0)}

(***************************************************************************)
(* mglPrintStringPairs.                                                    *)
(***************************************************************************)
\* formatting->filter == NULL || strstr(out.first[i].buf, formatting->filter) != NULL
PassesFilter(out, formatting, i) ==
    \/ formatting.filter = NULL
    \/ StrStr(CStr(out.first[i].buf), formatting.filter)

\* Mutant: the width is measured over every record, the filter ignored.
RECURSIVE LongestParLen_Unfiltered(_, _, _, _)
LongestParLen_Unfiltered(out, formatting, i, max_par_len) ==
    IF i < out.index
    THEN LongestParLen_Unfiltered(out, formatting, i + 1,
            MGL_MAX(max_par_len, out.first[i].len))
    ELSE max_par_len

\* Mutant: the width is measured over the records that have a value, the
\* headlines left out.
RECURSIVE LongestParLen_ValuesOnly(_, _, _, _)
LongestParLen_ValuesOnly(out, formatting, i, max_par_len) ==
    IF i < out.index
    THEN LongestParLen_ValuesOnly(out, formatting, i + 1,
            IF PassesFilter(out, formatting, i) /\ out.second[i].buf # NULL
            THEN MGL_MAX(max_par_len, out.first[i].len)
            ELSE max_par_len)
    ELSE max_par_len

\* The first loop: the longest parameter name, over i .. index - 1.
RECURSIVE LongestParLen(_, _, _, _)
LongestParLen(out, formatting, i, max_par_len) ==
    IF i < out.index
    THEN LongestParLen(out, formatting, i + 1,
            IF PassesFilter(out, formatting, i)
            THEN MGL_MAX(max_par_len, out.first[i].len)
            ELSE max_par_len)
    ELSE max_par_len

MaxParLen(out, formatting) ==
    LongestParLen(out, formatting, 0, 0) + formatting.distance

\* The second loop: the capacity of the output string.
RECURSIVE OutCap(_, _, _, _, _)
OutCap(out, formatting, max_par_len, i, out_cap) ==
    IF i < out.index
    THEN OutCap(out, formatting, max_par_len, i + 1,
            IF PassesFilter(out, formatting, i)
            THEN out_cap + out.first[i].len + (max_par_len - out.first[i].len)
                         + out.second[i].len + 1
            ELSE out_cap)
    ELSE out_cap

\* Mutant: the threshold compared with >= instead of >.
WrapCondition_AtThreshold(cur_val, formatting) ==
    /\ cur_val.len >= formatting.array_limit
    /\ cur_val.buf[cur_val.len] = Chr.rbrace

\* cur_val->len > formatting->array_limit && cur_val->buf[cur_val->len - 1] == '}'
WrapCondition(cur_val, formatting) ==
    /\ cur_val.len > formatting.array_limit
    /\ cur_val.buf[cur_val.len] = Chr.rbrace

\* Mutant: the element is copied without the comma that ends it.
RECURSIVE WrapLoop_CommaDropped(_, _, _, _, _, _)
WrapLoop_CommaDropped(s, cur_par, cur_val, cur_spaces_len, separator, off) ==
    IF off < cur_val.len
    THEN LET next_off == mglStringInternalFindChar(cur_val, Chr.comma, off, MGL_STRING_NPOS)
         IN  IF next_off # MGL_STRING_NPOS
             THEN LET s1 == mglStringInternalAppendSub(s, cur_val, off, next_off - off)
                      s2 == mglStringInternalAppendCStr(s1, << Chr.nl >>)
                      s3 == mglStringInternalResize(s2,
                                s2.len + cur_par.len + cur_spaces_len + 1, separator)
                  IN  WrapLoop_CommaDropped(s3, cur_par, cur_val, cur_spaces_len, separator,
                                            next_off + 1)
             ELSE mglStringInternalAppendSub(s, cur_val, off, MGL_STRING_NPOS)
    ELSE s

\* Mutant: the next line is indented by the name and the padding only.
RECURSIVE WrapLoop_NoExtra(_, _, _, _, _, _)
WrapLoop_NoExtra(s, cur_par, cur_val, cur_spaces_len, separator, off) ==
    IF off < cur_val.len
    THEN LET next_off == mglStringInternalFindChar(cur_val, Chr.comma, off, MGL_STRING_NPOS)
         IN  IF next_off # MGL_STRING_NPOS
             THEN LET s1 == mglStringInternalAppendSub(s, cur_val, off, next_off - off + 1)
                      s2 == mglStringInternalAppendCStr(s1, << Chr.nl >>)
                      s3 == mglStringInternalResize(s2,
                                s2.len + cur_par.len + cur_spaces_len, separator)
                  IN  WrapLoop_NoExtra(s3, cur_par, cur_val, cur_spaces_len, separator,
                                       next_off + 1)
             ELSE mglStringInternalAppendSub(s, cur_val, off, MGL_STRING_NPOS)
    ELSE s

\* while (off < cur_val->len) { ... }: one line for each element.
RECURSIVE WrapLoop(_, _, _, _, _, _)
WrapLoop(s, cur_par, cur_val, cur_spaces_len, separator, off) ==
    IF off < cur_val.len
    THEN LET next_off == mglStringInternalFindChar(cur_val, Chr.comma, off, MGL_STRING_NPOS)
         IN  IF next_off # MGL_STRING_NPOS
             THEN LET s1 == mglStringInternalAppendSub(s, cur_val, off, next_off - off + 1)
                      s2 == mglStringInternalAppendCStr(s1, << Chr.nl >>)
                      s3 == mglStringInternalResize(s2,
                                s2.len + cur_par.len + cur_spaces_len + 1, separator)
                  IN  WrapLoop(s3, cur_par, cur_val, cur_spaces_len, separator, next_off + 1)
             ELSE mglStringInternalAppendSub(s, cur_val, off, MGL_STRING_NPOS)
    ELSE s

\* Mutant: one separator too many after the name.
AppendStringParts_ExtraSeparator(s, cur_par, cur_val, max_par_len, formatting) ==
    LET cur_spaces_len == max_par_len - cur_par.len + 1
        s1 == mglStringInternalAppend(s, cur_par)
        s2 == mglStringInternalResize(s1, s1.len + cur_spaces_len, formatting.separator)
        s3 == IF WrapCondition(cur_val, formatting)
              THEN WrapLoop(s2, cur_par, cur_val, cur_spaces_len, formatting.separator, 0)
              ELSE mglStringInternalAppend(s2, cur_val)
    IN  mglStringInternalAppendCStr(s3, << Chr.nl >>)

\* The body of the merge loop for one record that passes the filter.
AppendStringParts(s, cur_par, cur_val, max_par_len, formatting) ==
    LET cur_spaces_len == max_par_len - cur_par.len
        s1 == mglStringInternalAppend(s, cur_par)
        s2 == mglStringInternalResize(s1, s1.len + cur_spaces_len, formatting.separator)
        s3 == IF WrapCondition(cur_val, formatting)
              THEN WrapLoop(s2, cur_par, cur_val, cur_spaces_len, formatting.separator, 0)
              ELSE mglStringInternalAppend(s2, cur_val)
    IN  mglStringInternalAppendCStr(s3, << Chr.nl >>)

\* mglStringInternalFree: 1 when the buffer is released, 0 for a null buffer.
mglStringInternalFree(s) == IF s.buf # NULL THEN 1 ELSE 0

\* Mutant: only the name is released.
FreeStringParts_NameOnly(out, out_i, acc) ==
    [acc EXCEPT !.freed_first[out_i] = @ + mglStringInternalFree(out.first[out_i])]

\* The end of the loop body: mglStringInternalFree of the name and of the
\* value of slot out_i, counted per slot.
FreeStringParts(out, out_i, acc) ==
    [acc EXCEPT !.freed_first[out_i]  = @ + mglStringInternalFree(out.first[out_i]),
                !.freed_second[out_i] = @ + mglStringInternalFree(out.second[out_i])]

\* The merge loop.  `acc` carries the output string, and as a record of what
\* the loop did: for each record appended its slot, the range of the output
\* it occupies and whether it took the multi-line branch; and the number of
\* times each slot's name and value buffers were released.
RECURSIVE MergeLoop(_, _, _, _, _, _)
MergeLoop(out, formatting, max_par_len, out_permutations, i, acc) ==
    IF i < out.index
    THEN LET out_i == out_permutations[i]
             pass == PassesFilter(out, formatting, out_i)
             s1 == IF pass
                   THEN AppendStringParts(acc.s, out.first[out_i], out.second[out_i],
                                          max_par_len, formatting)
                   ELSE acc.s
             chunks1 == IF pass
                        THEN Append(acc.chunks,
                                [slot    |-> out_i,
                                 from    |-> acc.s.len,
                                 to      |-> s1.len,
                                 wrapped |-> WrapCondition(out.second[out_i], formatting)])
                        ELSE acc.chunks
         IN  MergeLoop(out, formatting, max_par_len, out_permutations, i + 1,
                FreeStringParts(out, out_i,
                    [acc EXCEPT !.s = s1, !.chunks = chunks1]))
    ELSE acc

\* The call with the outcome `out_permutations` of the ordering step.
mglPrintStringPairs(out, formatting, out_permutations) ==
    LET max_par_len == MaxParLen(out, formatting)
        out_cap == OutCap(out, formatting, max_par_len, 0, 0)
        acc == MergeLoop(out, formatting, max_par_len, out_permutations, 0,
                  [s            |-> mglStringInternalInit(out_cap),
                   chunks       |-> << >>,
                   freed_first  |-> [i \in Slots |-> 0],
                   freed_second |-> [i \in Slots |-> 0]])
    IN  [s                |-> acc.s,
         max_par_len      |-> max_par_len,
         out_permutations |-> out_permutations,
         chunks           |-> acc.chunks,
         freed_first      |-> acc.freed_first,
         freed_second     |-> acc.freed_second]

\* Mutant: the permutation is sorted whatever the order option says.
OutPermutations_AlwaysSorted(out, formatting) == QSort(out.first)

\* The orderings the call can end up with.
OutPermutations(out, formatting) ==
    IF formatting.order = MGLFormattingOrderSorted
    THEN QSort(out.first)
    ELSE {IdentityPermutation}

(***************************************************************************)
(* Value formatters: sprintf, mglEnumToHex, the resolvers, mglNextParam... *)
(***************************************************************************)
RECURSIVE DecimalDigits(_)
DecimalDigits(n) ==
    IF n < 10 THEN << Chr.zero + n >>
    ELSE DecimalDigits(n \div 10) \o << Chr.zero + (n % 10) >>

\* sprintf(s, "%i", val)
SprintfI(val) ==
    IF val < 0 THEN << 45 >> \o DecimalDigits(0 - val) ELSE DecimalDigits(val)

\* The k-th hexadecimal digit (k = 0 the lowest) of (unsigned)val for a
\* 32-bit two's complement val: floor division keeps the sign bits.
Nibble(val, k) == (val \div (16 ^ k)) % 16

HexChar(d) == IF d < 10 THEN Chr.zero + d ELSE 65 + (d - 10)

\* Number of digits "%X" prints: up to the highest non-zero one, at least one.
RECURSIVE HexWidth(_, _)
HexWidth(val, k) ==
    IF k = 0 \/ Nibble(val, k) # 0 THEN k + 1 ELSE HexWidth(val, k - 1)

\* sprintf(s, "0x%*X", 8, val): right-justified in 8 columns, space padded.
SprintfHex(val) ==
    LET w == HexWidth(val, 7)
    IN  << Chr.zero, Chr.x >>
        \o [i \in 1..(8 - w) |-> Chr.sp]
        \o [i \in 1..w |-> HexChar(Nibble(val, w - i))]

\* Mutant: the padding of sprintf is left as it is.
ZeroFill_None(s, i) == s

\* for (s += 2; *s == ' '; ++s) *s = '0';
RECURSIVE ZeroFill(_, _)
ZeroFill(s, i) ==
    IF i <= Len(s) /\ s[i] = Chr.sp
    THEN ZeroFill([s EXCEPT ![i] = Chr.zero], i + 1)
    ELSE s

mglEnumToHex(val) == ZeroFill(SprintfHex(val), 3)

\* The resolvers: MGL_CASE2STR(NAME) returns the name of the constant.
mglCullFaceModeStr(param) ==
    CASE param = 1028 -> << 71, 76, 95, 70, 82, 79, 78, 84 >>
      [] param = 1029 -> << 71, 76, 95, 66, 65, 67, 75 >>
      [] param = 1032 -> << 71, 76, 95, 70, 82, 79, 78, 84, 95, 65, 78, 68, 95, 66, 65, 67, 75 >>
      [] OTHER -> NULL

mglPolygonModeStr(param) ==
    CASE param = 6912 -> << 71, 76, 95, 80, 79, 73, 78, 84 >>
      [] param = 6913 -> << 71, 76, 95, 76, 73, 78, 69 >>
      [] param = 6914 -> << 71, 76, 95, 70, 73, 76, 76 >>
      [] OTHER -> NULL

\* GL_CONTEXT_FLAG_FORWARD_COMPATIBLE_BIT (1), GL_CONTEXT_FLAG_DEBUG_BIT (2),
\* GL_CONTEXT_FLAG_ROBUST_ACCESS_BIT (4).
mglContextFlagBitStr(param) ==
    CASE param = 1 -> << 71, 76, 95, 67, 79, 78, 84, 69, 88, 84, 95, 70, 76, 65, 71, 95,
                         70, 79, 82, 87, 65, 82, 68, 95, 67, 79, 77, 80, 65, 84, 73, 66,
                         76, 69, 95, 66, 73, 84 >>
      [] param = 2 -> << 71, 76, 95, 67, 79, 78, 84, 69, 88, 84, 95, 70, 76, 65, 71, 95,
                         68, 69, 66, 85, 71, 95, 66, 73, 84 >>
      [] param = 4 -> << 71, 76, 95, 67, 79, 78, 84, 69, 88, 84, 95, 70, 76, 65, 71, 95,
                         82, 79, 66, 85, 83, 84, 95, 65, 67, 67, 69, 83, 83, 95, 66, 73,
                         84 >>
      [] OTHER -> NULL

\* A call through the MGLEnumToStringProc pointer `proc`.
CallProc(proc, param) ==
    IF proc = "mglCullFaceModeStr" THEN mglCullFaceModeStr(param)
    ELSE IF proc = "mglContextFlagBitStr" THEN mglContextFlagBitStr(param)
    ELSE mglPolygonModeStr(param)

mglNextParamInteger(str_array, par, val) ==
    mglNextParamString(str_array, par, SprintfI(val))

mglNextParamIntegerHex(str_array, par, val) ==
    mglNextParamString(str_array, par, mglEnumToHex(val))

mglNextParamEnum(str_array, par, val, proc) ==
    LET s_val == CallProc(proc, val)
    IN  IF s_val = NULL
        THEN mglNextParamString(str_array, par, mglEnumToHex(val))
        ELSE mglNextParamString(str_array, par, s_val)

\* for (i = 0; i < n; ++i) of mglNextParamIntegerArray
RECURSIVE IntegerArrayLoop(_, _, _, _, _)
IntegerArrayLoop(out_val, val, n, to_hex, i) ==
    IF i < n
    THEN LET s_val == IF to_hex # 0 THEN mglEnumToHex(val[i + 1]) ELSE SprintfI(val[i + 1])
             s1 == mglStringInternalAppendCStr(out_val, s_val)
             s2 == IF i + 1 < n
                   THEN mglStringInternalAppendCStr(s1, << Chr.comma, Chr.sp >>)
                   ELSE s1
         IN  IntegerArrayLoop(s2, val, n, to_hex, i + 1)
    ELSE out_val

\* for (i = 0; i < n; ++i) of mglNextParamEnumArray
RECURSIVE EnumArrayLoop(_, _, _, _, _)
EnumArrayLoop(out_val, val, n, proc, i) ==
    IF i < n
    THEN LET s_val == CallProc(proc, val[i + 1])
             s1 == IF s_val = NULL
                   THEN mglStringInternalAppendCStr(out_val, mglEnumToHex(val[i + 1]))
                   ELSE mglStringInternalAppendCStr(out_val, s_val)
             s2 == IF i + 1 < n
                   THEN mglStringInternalAppendCStr(s1, << Chr.comma, Chr.sp >>)
                   ELSE s1
         IN  EnumArrayLoop(s2, val, n, proc, i + 1)
    ELSE out_val

\* Mutant: the marker is also written when count equals limit.
CloseArray_AtLimit(out_val, count, limit) ==
    LET s1 == IF count >= limit
              THEN mglStringInternalAppendCStr(out_val, << 44, 32, 46, 46, 46, 32 >>)
              ELSE out_val
    IN  mglStringInternalAppendCStr(s1, << Chr.sp, Chr.rbrace >>)

\* What follows the element loop: the ", ... " marker and the closing " }".
CloseArray(out_val, count, limit) ==
    LET s1 == IF count > limit
              THEN mglStringInternalAppendCStr(out_val, << 44, 32, 46, 46, 46, 32 >>)
              ELSE out_val
    IN  mglStringInternalAppendCStr(s1, << Chr.sp, Chr.rbrace >>)

OpenArray == mglStringInternalAppendCStr(mglStringInternalInit(0), << 123, Chr.sp >>)

mglNextParamIntegerArray(str_array, par, val, count, limit, to_hex) ==
    LET n == MGL_MIN(count, limit)
        out_val == CloseArray(IntegerArrayLoop(OpenArray, val, n, to_hex, 0), count, limit)
    IN  [first  |-> [str_array.first  EXCEPT ![str_array.index] = mglStringInternalInitWith(par)],
         second |-> [str_array.second EXCEPT ![str_array.index] = out_val],
         index  |-> str_array.index + 1]

mglNextParamEnumArray(str_array, par, val, count, limit, proc) ==
    LET n == MGL_MIN(count, limit)
        out_val == CloseArray(EnumArrayLoop(OpenArray, val, n, proc, 0), count, limit)
    IN  [first  |-> [str_array.first  EXCEPT ![str_array.index] = mglStringInternalInitWith(par)],
         second |-> [str_array.second EXCEPT ![str_array.index] = out_val],
         index  |-> str_array.index + 1]

\* sprintf(s, "%lli", val): the decimal digits, as "%i" for a wider type.
SprintfLLI(val) == SprintfI(val)

\* for (i = 0; i < n; ++i) of mglNextParamInteger64Array
RECURSIVE Integer64ArrayLoop(_, _, _, _)
Integer64ArrayLoop(out_val, val, n, i) ==
    IF i < n
    THEN LET s1 == mglStringInternalAppendCStr(out_val, SprintfLLI(val[i + 1]))
             s2 == IF i + 1 < n
                   THEN mglStringInternalAppendCStr(s1, << Chr.comma, Chr.sp >>)
                   ELSE s1
         IN  Integer64ArrayLoop(s2, val, n, i + 1)
    ELSE out_val

mglNextParamInteger64Array(str_array, par, val, count, limit) ==
    LET n == MGL_MIN(count, limit)
        out_val == CloseArray(Integer64ArrayLoop(OpenArray, val, n, 0), count, limit)
    IN  [first  |-> [str_array.first  EXCEPT ![str_array.index] = mglStringInternalInitWith(par)],
         second |-> [str_array.second EXCEPT ![str_array.index] = out_val],
         index  |-> str_array.index + 1]

\* GLenum flag = (1 << i) as a 32-bit two's complement value; 1 << 31 is
\* the sign bit.
BitFlag(i) == IF i = 31 THEN (0 - 2147483647) - 1 ELSE 2 ^ i

\* (val & flag) != 0 for flag = 1 << i
BitAnd(val, i) == IF i = 31 THEN val < 0 ELSE (val \div (2 ^ i)) % 2 = 1

\* Mutant: the joiner is written before every token, the first one included.
RECURSIVE BitfieldLoop_LeadingJoiner(_, _, _, _, _, _)
BitfieldLoop_LeadingJoiner(out_val, val, count, proc, i, num_fields) ==
    IF i < count
    THEN IF BitAnd(val, i)
         THEN LET s1 == mglStringInternalAppendCStr(out_val, << Chr.sp, 124, Chr.sp >>)
                  s_val == CallProc(proc, BitFlag(i))
                  s2 == IF s_val = NULL
                        THEN mglStringInternalAppendCStr(s1, mglEnumToHex(val))
                        ELSE mglStringInternalAppendCStr(s1, s_val)
              IN  BitfieldLoop_LeadingJoiner(s2, val, count, proc, i + 1, num_fields + 1)
         ELSE BitfieldLoop_LeadingJoiner(out_val, val, count, proc, i + 1, num_fields)
    ELSE [s |-> out_val, num_fields |-> num_fields]

\* for (i = 0; i < count; ++i) of mglNextParamBitfield.  The hex fallback
\* formats `val`, the whole bitfield.
RECURSIVE BitfieldLoop(_, _, _, _, _, _)
BitfieldLoop(out_val, val, count, proc, i, num_fields) ==
    IF i < count
    THEN IF BitAnd(val, i)
         THEN LET s1 == IF num_fields > 0
                        THEN mglStringInternalAppendCStr(out_val, << Chr.sp, 124, Chr.sp >>)
                        ELSE out_val
                  s_val == CallProc(proc, BitFlag(i))
                  s2 == IF s_val = NULL
                        THEN mglStringInternalAppendCStr(s1, mglEnumToHex(val))
                        ELSE mglStringInternalAppendCStr(s1, s_val)
              IN  BitfieldLoop(s2, val, count, proc, i + 1, num_fields + 1)
         ELSE BitfieldLoop(out_val, val, count, proc, i + 1, num_fields)
    ELSE [s |-> out_val, num_fields |-> num_fields]

mglNextParamBitfield(str_array, par, val, count, proc) ==
    LET r == BitfieldLoop(mglStringInternalInit(0), val, count, proc, 0, 0)
        out_val == IF r.num_fields = 0
                   THEN mglStringInternalAppendCStr(r.s, << Chr.zero >>)
                   ELSE r.s
    IN  [first  |-> [str_array.first  EXCEPT ![str_array.index] = mglStringInternalInitWith(par)],
         second |-> [str_array.second EXCEPT ![str_array.index] = out_val],
         index  |-> str_array.index + 1]

(***************************************************************************)
(* The public entry points and the state of one report call.               *)
(***************************************************************************)
VARIABLES
    pc,                  \* position of the caller: idle, fill, done
    caller,              \* the public function that is running
    fmt_arg,             \* the `formatting` argument: << >> for NULL, else << f >>
    formatting,          \* the options `formatting` points to after the NULL test
    out,                 \* the MGLStringPairArray of the call
    params,              \* the typed values handed to the formatters, per record
    report,              \* what mglPrintStringPairs returned and did
    g_MGLOutputParamas,  \* what the global sort context points to
    str,                 \* one MGLStringInternal driven through its operations
    strlog,              \* the operations applied to `str` so far
    calls                \* the report calls that run concurrently, per thread

vars == << pc, caller, fmt_arg, formatting, out, params, report, g_MGLOutputParamas,
           str, strlog, calls >>

\* The variables a single report call does not use, and their values while
\* no string is being driven and no concurrent calls are running.
othervars == << str, strlog, calls >>

OtherIdle ==
    /\ str = mglStringInternalReset
    /\ strlog = << >>
    /\ calls = << >>

\* static const MGLFormattingOptions g_formattingDefault of mglPrintRenderState
g_formattingDefault_RenderState ==
    [separator |-> Chr.sp, distance |-> 1, array_limit |-> 200,
     order |-> MGLFormattingOrderDefault, enable_hex |-> 1, filter |-> NULL]

\* Mutant: a default distance of 3 (the options of the test program).
g_formattingDefault_BindingPoints_Distance3 ==
    [separator |-> Chr.sp, distance |-> 3, array_limit |-> 200,
     order |-> MGLFormattingOrderDefault, enable_hex |-> 1, filter |-> NULL]

\* static const MGLFormattingOptions g_formattingDefault of mglPrintBindingPoints
g_formattingDefault_BindingPoints ==
    [separator |-> Chr.sp, distance |-> 1, array_limit |-> 200,
     order |-> MGLFormattingOrderDefault, enable_hex |-> 1, filter |-> NULL]

\* The inputs explored.  Names "A", "AA", "B"; the headline "\nAA"; values
\* "1", "22", "{1,2,3}"; the filter "B"; the separator '.'.
ParNames  == { << 65 >>, << 65, 65 >>, << 66 >> }
Headlines == { << Chr.nl, 65, 65 >> }
ValTexts  == { << 49 >>, << 50, 50 >>, << 123, 49, 44, 50, 44, 51, 125 >> }
Filters   == { NULL, << 66 >> }
IntArrays == { << 0, 0 >>, << 1, -2 >> }

\* enable_hex is not read by mglPrintStringPairs.
ReportFormattings ==
    [separator : {Chr.dot}, distance : {0, 2}, array_limit : {1, 7},
     order : {MGLFormattingOrderDefault, MGLFormattingOrderSorted},
     enable_hex : {1}, filter : Filters]

FormattingArgs == {<< >>} \cup {<< f >> : f \in ReportFormattings}

NoReport ==
    [s                |-> mglStringInternalReset,
     max_par_len      |-> 0,
     out_permutations |-> IdentityPermutation,
     chunks           |-> << >>,
     freed_first      |-> [i \in Slots |-> 0],
     freed_second     |-> [i \in Slots |-> 0]]

Init ==
    /\ pc = "idle"
    /\ caller = "none"
    /\ fmt_arg = << >>
    /\ formatting = g_formattingDefault_RenderState
    /\ out = EmptyPairArray
    /\ params = << >>
    /\ report = NoReport
    /\ g_MGLOutputParamas = "NULL"
    /\ OtherIdle

\* mglPrintRenderState up to the first record: the NULL test and the memset.
mglPrintRenderState_Begin ==
    \E f \in FormattingArgs :
        /\ pc = "idle"
        /\ pc' = "fill"
        /\ caller' = "mglPrintRenderState"
        /\ fmt_arg' = f
        /\ formatting' = IF f = << >> THEN g_formattingDefault_RenderState ELSE f[1]
        /\ out' = EmptyPairArray
        /\ UNCHANGED << params, report, g_MGLOutputParamas >>
        /\ UNCHANGED othervars

\* mglPrintBindingPoints up to the first record.
mglPrintBindingPoints_Begin ==
    \E f \in FormattingArgs :
        /\ pc = "idle"
        /\ pc' = "fill"
        /\ caller' = "mglPrintBindingPoints"
        /\ fmt_arg' = f
        /\ formatting' = IF f = << >> THEN g_formattingDefault_BindingPoints ELSE f[1]
        /\ out' = EmptyPairArray
        /\ UNCHANGED << params, report, g_MGLOutputParamas >>
        /\ UNCHANGED othervars

\* if (formatting->order == MGLFormattingOrderDefault) mglNextHeadline(&out, ...)
RenderState_NextHeadline ==
    \E headline \in Headlines :
        /\ pc = "fill"
        /\ caller = "mglPrintRenderState"
        /\ formatting.order = MGLFormattingOrderDefault
        /\ out.index < MaxStates
        /\ out' = mglNextHeadline(out, headline)
        /\ UNCHANGED << pc, caller, fmt_arg, formatting, params, report, g_MGLOutputParamas >>
        /\ UNCHANGED othervars

\* One record of mglPrintRenderState: a name and the text of its value.
RenderState_NextParamString ==
    \E par \in ParNames, val \in ValTexts :
        /\ pc = "fill"
        /\ caller = "mglPrintRenderState"
        /\ out.index < MaxStates
        /\ out' = mglNextParamString(out, par, val)
        /\ UNCHANGED << pc, caller, fmt_arg, formatting, params, report, g_MGLOutputParamas >>
        /\ UNCHANGED othervars

\* One record of mglPrintBindingPoints: an integer array, count = limit, no hex.
BindingPoints_NextParamIntegerArray ==
    \E par \in ParNames, val \in IntArrays :
        /\ pc = "fill"
        /\ caller = "mglPrintBindingPoints"
        /\ out.index < MaxStates
        /\ out' = mglNextParamIntegerArray(out, par, val, Len(val), Len(val), 0)
        /\ UNCHANGED << pc, caller, fmt_arg, formatting, params, report, g_MGLOutputParamas >>
        /\ UNCHANGED othervars

\* return mglPrintStringPairs(out, formatting);
Return_mglPrintStringPairs ==
    \E out_permutations \in OutPermutations(out, formatting) :
        /\ pc = "fill"
        /\ pc' = "done"
        /\ report' = mglPrintStringPairs(out, formatting, out_permutations)
        /\ g_MGLOutputParamas' =
              IF formatting.order = MGLFormattingOrderSorted
              THEN "out.first"
              ELSE g_MGLOutputParamas
        /\ UNCHANGED << caller, fmt_arg, formatting, out, params >>
        /\ UNCHANGED othervars

Next ==
    \/ mglPrintRenderState_Begin
    \/ mglPrintBindingPoints_Begin
    \/ RenderState_NextHeadline
    \/ RenderState_NextParamString
    \/ BindingPoints_NextParamIntegerArray
    \/ Return_mglPrintStringPairs

Spec == Init /\ [][Next]_vars

\* The text of the report: mglGetUTF8String(s).
ReportText == CStr(report.s.buf)

(***************************************************************************)
(* Vocabulary of the properties: the table and the report as the caller    *)
(* sees them.                                                              *)
(***************************************************************************)
Done == pc = "done"

NameOf(i)   == CStr(out.first[i].buf)
HasValue(i) == out.second[i].buf # NULL
ValueOf(i)  == CStr(out.second[i].buf)

Copies(n, ch) == [k \in 1..n |-> ch]

\* A record is included when no filter is set or its name contains the filter.
NameContains(name, sub) ==
    \E k \in 0..(Len(name) - Len(sub)) : SubSeq(name, k + 1, k + Len(sub)) = sub

Included(i) ==
    i < out.index /\ (formatting.filter = NULL \/ NameContains(NameOf(i), formatting.filter))

\* The part of the report text one record produced.
ChunkText(c) == SubSeq(ReportText, c.from + 1, c.to)

ChunksOf(i) == {k \in 1..Len(report.chunks) : report.chunks[k].slot = i}

\* The chunks tile the report text in the order of emission.
ChunksTile ==
    /\ \A k \in 1..Len(report.chunks) :
          report.chunks[k].from = (IF k = 1 THEN 0 ELSE report.chunks[k - 1].to)
    /\ Len(ReportText) =
          (IF report.chunks = << >> THEN 0 ELSE report.chunks[Len(report.chunks)].to)

\* The value is longer than the wrap threshold and ends with '}'.
IsWrapped(i) ==
    /\ Len(ValueOf(i)) > formatting.array_limit
    /\ ValueOf(i)[Len(ValueOf(i))] = Chr.rbrace

\* The value up to and including its first comma (all of it without a comma).
RECURSIVE FirstSegmentLen(_, _)
FirstSegmentLen(v, k) ==
    IF k > Len(v) THEN Len(v)
    ELSE IF v[k] = Chr.comma THEN k
    ELSE FirstSegmentLen(v, k + 1)

FirstSegment(v) == SubSeq(v, 1, FirstSegmentLen(v, 1))

Padding(i) == Copies(report.max_par_len - Len(NameOf(i)), formatting.separator)

(***************************************************************************)
(* C1.                                                                     *)
(***************************************************************************)
\* C1 as stated: every included record that has a value is emitted exactly
\* once, at the start of a line, as its name, then (column_width -
\* name.length) separators, then its value, then one newline.
C1_Original ==
    Done =>
        /\ ChunksTile
        /\ \A i \in Slots : (Included(i) /\ HasValue(i)) =>
              /\ Cardinality(ChunksOf(i)) = 1
              /\ \A k \in ChunksOf(i) :
                    ChunkText(report.chunks[k]) =
                        NameOf(i) \o Padding(i) \o ValueOf(i) \o << Chr.nl >>

\* C1 amended: every included record that has a value is emitted exactly
\* once, at the start of a line, as its name, then (column_width -
\* name.length) separators, then its value, then one newline, where the
\* value is unchanged when it is not wrapped and, when it is wrapped, starts
\* with its first segment at that same offset; so every value starts at
\* offset column_width of its line.  column_width is the width the assembler
\* computed (max_par_len).
C1_Aligned ==
    Done =>
        /\ ChunksTile
        /\ \A i \in Slots : (Included(i) /\ HasValue(i)) =>
              /\ Cardinality(ChunksOf(i)) = 1
              /\ \A k \in ChunksOf(i) :
                    LET c == report.chunks[k]
                        t == ChunkText(c)
                        w == report.max_par_len
                        seg == FirstSegment(ValueOf(i))
                    IN  /\ c.from = 0 \/ ReportText[c.from] = Chr.nl
                        /\ SubSeq(t, 1, w) = NameOf(i) \o Padding(i)
                        /\ t[Len(t)] = Chr.nl
                        /\ ~IsWrapped(i) =>
                              t = NameOf(i) \o Padding(i) \o ValueOf(i) \o << Chr.nl >>
                        /\ IsWrapped(i) =>
                              SubSeq(t, w + 1, w + Len(seg)) = seg

\* The example of C1: records [("AA","1"), ("B","22")], min_gap 1 and
\* separator ' ' give "AA 1\nB  22\n".
C1_Witness ==
    /\ Done
    /\ formatting.separator = Chr.sp /\ formatting.distance = 1
    /\ out.index = 2
    /\ NameOf(0) = << 65, 65 >> /\ HasValue(0) /\ ValueOf(0) = << 49 >>
    /\ NameOf(1) = << 66 >> /\ HasValue(1) /\ ValueOf(1) = << 50, 50 >>
    /\ ReportText = << 65, 65, 32, 49, 10, 66, 32, 32, 50, 50, 10 >>

(***************************************************************************)
(* C2.                                                                     *)
(***************************************************************************)
\* The table that holds only the records whose name contains the filter, in
\* the same order.
RECURSIVE SubTableFrom(_, _)
SubTableFrom(i, acc) ==
    IF i < out.index
    THEN SubTableFrom(i + 1,
            IF NameContains(NameOf(i), formatting.filter)
            THEN [first  |-> [acc.first  EXCEPT ![acc.index] = out.first[i]],
                  second |-> [acc.second EXCEPT ![acc.index] = out.second[i]],
                  index  |-> acc.index + 1]
            ELSE acc)
    ELSE acc

SubTable == SubTableFrom(0, EmptyPairArray)

\* The report texts a table can produce under given options.
ReportsOf(table, options) ==
    {CStr(mglPrintStringPairs(table, options, p).s.buf) :
        p \in OutPermutations(table, options)}

\* C2: with a name filter set the report is a report of the unfiltered
\* sub-table of the matching records (same order, same options); a record
\* that does not match produces no output and every matching record is
\* emitted exactly once.
C2_FilterIsSubTable ==
    (Done /\ formatting.filter # NULL) =>
        /\ ReportText \in ReportsOf(SubTable, [formatting EXCEPT !.filter = NULL])
        /\ \A i \in Slots : i < out.index =>
              Cardinality(ChunksOf(i)) =
                  (IF NameContains(NameOf(i), formatting.filter) THEN 1 ELSE 0)

\* A filtered report of two records of which the longer-named one is dropped.
C2_Witness ==
    /\ Done
    /\ formatting.filter # NULL
    /\ out.index = 2
    /\ \E i, j \in Slots :
          /\ Included(i) /\ ~Included(j) /\ j < out.index
          /\ Len(NameOf(j)) > Len(NameOf(i))
    /\ Len(report.chunks) = 1

(***************************************************************************)
(* C3, C4.                                                                 *)
(***************************************************************************)
\* Byte-wise string order: a is a prefix of b, or at the first position
\* where they differ a holds the smaller byte.
ByteLeq(a, b) ==
    \/ Len(a) <= Len(b) /\ SubSeq(b, 1, Len(a)) = a
    \/ \E k \in 1..MGL_MIN(Len(a), Len(b)) :
          /\ SubSeq(a, 1, k - 1) = SubSeq(b, 1, k - 1)
          /\ a[k] < b[k]

EmittedSlot(k) == report.chunks[k].slot

\* Every chunk is a line that begins with the name of its record.
ChunksBeginWithName ==
    \A k \in 1..Len(report.chunks) :
        LET n == NameOf(EmittedSlot(k))
        IN  SubSeq(ChunkText(report.chunks[k]), 1, Len(n)) = n

\* C3: in lexicographic order the names of consecutively emitted records are
\* in non-decreasing byte-wise order.
C3_SortedOrder ==
    (Done /\ formatting.order = MGLFormattingOrderSorted) =>
        /\ ChunksTile /\ ChunksBeginWithName
        /\ \A k \in 1..(Len(report.chunks) - 1) :
              ByteLeq(NameOf(EmittedSlot(k)), NameOf(EmittedSlot(k + 1)))

\* A sorted report that emits the second record before the first.
C3_Witness ==
    /\ Done
    /\ formatting.order = MGLFormattingOrderSorted
    /\ Len(report.chunks) = 2
    /\ EmittedSlot(1) = 1 /\ EmittedSlot(2) = 0
    /\ NameOf(0) = << 66 >> /\ NameOf(1) = << 65 >>

\* C4: in insertion order the index order is the identity and the emitted
\* records appear in the order in which they were added.
C4_InsertionOrder ==
    (Done /\ formatting.order = MGLFormattingOrderDefault) =>
        /\ ChunksTile /\ ChunksBeginWithName
        /\ report.out_permutations = IdentityPermutation
        /\ \A k \in 1..(Len(report.chunks) - 1) : EmittedSlot(k) < EmittedSlot(k + 1)

\* An insertion-ordered report of two records whose names are out of order.
C4_Witness ==
    /\ Done
    /\ formatting.order = MGLFormattingOrderDefault
    /\ Len(report.chunks) = 2
    /\ NameOf(0) = << 66 >> /\ NameOf(1) = << 65 >>
    /\ EmittedSlot(1) = 0 /\ EmittedSlot(2) = 1

(***************************************************************************)
(* C5, C7: headlines.                                                      *)
(***************************************************************************)
SetMax(S) == IF S = {} THEN 0 ELSE CHOOSE m \in S : \A n \in S : n <= m

\* C5: the column width is the longest name among the included records that
\* are not headlines, plus min_gap; a headline never contributes.
C5_ColumnWidth ==
    Done =>
        report.max_par_len =
            SetMax({Len(NameOf(i)) : i \in {j \in Slots : Included(j) /\ HasValue(j)}})
                + formatting.distance

\* C7: a headline is emitted as its text followed by a newline, with no
\* separator characters in between.
C7_HeadlineUnpadded ==
    Done =>
        \A i \in Slots : (Included(i) /\ ~HasValue(i)) =>
            \A k \in ChunksOf(i) :
                ChunkText(report.chunks[k]) = NameOf(i) \o << Chr.nl >>

(***************************************************************************)
(* C6.                                                                     *)
(***************************************************************************)
CountChar(v, ch) == Cardinality({k \in 1..Len(v) : v[k] = ch})

\* C6: a value is wrapped exactly when it is longer than array_wrap_threshold
\* and ends with '}'.  A wrapped value with k commas occupies k + 1 lines,
\* broken after each comma, its first segment on the line of the name; a
\* value that is not wrapped is emitted unchanged on a single line.
C6_Wrap ==
    Done =>
        \A k \in 1..Len(report.chunks) :
            LET c == report.chunks[k]
                i == c.slot
                t == ChunkText(c)
                head == NameOf(i) \o Padding(i)
            IN  HasValue(i) =>
                  /\ c.wrapped <=> IsWrapped(i)
                  /\ IsWrapped(i) =>
                        /\ CountChar(t, Chr.nl) = CountChar(ValueOf(i), Chr.comma) + 1
                        /\ CountChar(t, Chr.comma) = CountChar(ValueOf(i), Chr.comma)
                        /\ \A q \in 1..(Len(t) - 1) : t[q] = Chr.comma => t[q + 1] = Chr.nl
                        /\ SubSeq(t, 1, Len(head) + Len(FirstSegment(ValueOf(i))))
                              = head \o FirstSegment(ValueOf(i))
                  /\ ~IsWrapped(i) =>
                        /\ t = head \o ValueOf(i) \o << Chr.nl >>
                        /\ CountChar(t, Chr.nl) = 1

\* The four cases: long with '}' (wrapped, two commas), long without '}',
\* exactly at the threshold with '}', short.
C6_Witness ==
    /\ Done
    /\ Len(report.chunks) = 2
    /\ \E k \in 1..2 :
          /\ report.chunks[k].wrapped
          /\ CountChar(ChunkText(report.chunks[k]), Chr.nl) = 3
    /\ \E k \in 1..2 :
          /\ ~report.chunks[k].wrapped
          /\ HasValue(EmittedSlot(k))
          /\ Len(ValueOf(EmittedSlot(k))) > formatting.array_limit

\* A value ending with '}' whose length equals the threshold is not wrapped.
C6_WitnessAtThreshold ==
    /\ Done
    /\ \E k \in 1..Len(report.chunks) :
          /\ HasValue(EmittedSlot(k))
          /\ Len(ValueOf(EmittedSlot(k))) = formatting.array_limit
          /\ CountChar(ValueOf(EmittedSlot(k)), Chr.comma) = 2
          /\ ~report.chunks[k].wrapped

(***************************************************************************)
(* C8.                                                                     *)
(***************************************************************************)
\* The defaults the comments of MGLFormattingOptions document.
DocumentedDefaults ==
    [separator |-> Chr.sp, distance |-> 1, array_limit |-> 200,
     order |-> MGLFormattingOrderDefault, enable_hex |-> 1, filter |-> NULL]

\* C8: a NULL formatting argument gives the report of the documented
\* defaults, in mglPrintRenderState and in mglPrintBindingPoints.
C8_NullIsDefaults ==
    (pc # "idle" /\ fmt_arg = << >>) =>
        /\ formatting = DocumentedDefaults
        /\ Done => ReportText \in ReportsOf(out, DocumentedDefaults)

C8_Witness ==
    /\ Done
    /\ fmt_arg = << >>
    /\ caller = "mglPrintBindingPoints"
    /\ out.index = 2
    /\ Len(report.chunks) = 2

C8_WitnessRenderState ==
    /\ Done
    /\ fmt_arg = << >>
    /\ caller = "mglPrintRenderState"
    /\ out.index = 2
    /\ \E i \in Slots : ~HasValue(i)

(***************************************************************************)
(* C10.                                                                    *)
(***************************************************************************)
\* C10: when mglPrintStringPairs returns, the name text and the value text
\* of every record added (emitted or filtered out, in either order) has been
\* released exactly once; nothing else has been released.
C10_ReleasedOnce ==
    Done =>
        \A i \in Slots :
            IF i < out.index
            THEN /\ report.freed_first[i] = 1
                 /\ report.freed_second[i] = (IF HasValue(i) THEN 1 ELSE 0)
            ELSE /\ report.freed_first[i] = 0
                 /\ report.freed_second[i] = 0

\* A sorted, filtered report with one record emitted and one filtered out.
C10_Witness ==
    /\ Done
    /\ formatting.order = MGLFormattingOrderSorted
    /\ formatting.filter # NULL
    /\ out.index = 2
    /\ Len(report.chunks) = 1
    /\ report.out_permutations # IdentityPermutation

\* An insertion-ordered report with a headline and a pair.
C10_WitnessInsertion ==
    /\ Done
    /\ formatting.order = MGLFormattingOrderDefault
    /\ out.index = 2
    /\ \E i \in Slots : ~HasValue(i)
    /\ \E i \in Slots : HasValue(i)

(***************************************************************************)
(* The value formatters on their own: records are added to the table from  *)
(* typed values, under options with either setting of enable_hex.          *)
(***************************************************************************)
\* Enum values: GL_FRONT, GL_FRONT_AND_BACK, and codes no resolver names.
EnumVals   == { 1028, 1032, 0, 48879, -1 }
\* Enum arrays of mglPolygonModeStr: GL_POINT, GL_FILL, and unnamed codes.
EnumArrays == { << 6912, 6914 >>, << 6912, 7 >>, << 255, 6914 >>, << -2, 0 >> }

FormatterFormattings ==
    [separator : {Chr.sp}, distance : {1}, array_limit : {200},
     order : {MGLFormattingOrderDefault}, enable_hex : {0, 1}, filter : {NULL}]

InitFmt ==
    /\ pc = "fmt"
    /\ caller = "mglPrintRenderState"
    /\ formatting \in FormatterFormattings
    /\ fmt_arg = << formatting >>
    /\ out = EmptyPairArray
    /\ params = << >>
    /\ report = NoReport
    /\ g_MGLOutputParamas = "NULL"
    /\ OtherIdle

\* mglNextParamEnum(&out, "A", val, mglCullFaceModeStr)
Fmt_NextParamEnum ==
    \E val \in EnumVals :
        /\ pc = "fmt"
        /\ out.index < MaxStates
        /\ out' = mglNextParamEnum(out, << 65 >>, val, "mglCullFaceModeStr")
        /\ params' = Append(params,
              [kind |-> "enum", val |-> << val >>, proc |-> "mglCullFaceModeStr"])
        /\ UNCHANGED << pc, caller, fmt_arg, formatting, report, g_MGLOutputParamas >>
        /\ UNCHANGED othervars

\* mglNextParamEnumArray(&out, "A", val, 2, 2, mglPolygonModeStr)
Fmt_NextParamEnumArray ==
    \E val \in EnumArrays :
        /\ pc = "fmt"
        /\ out.index < MaxStates
        /\ out' = mglNextParamEnumArray(out, << 65 >>, val, Len(val), Len(val),
                                        "mglPolygonModeStr")
        /\ params' = Append(params,
              [kind |-> "enum_array", val |-> val, proc |-> "mglPolygonModeStr"])
        /\ UNCHANGED << pc, caller, fmt_arg, formatting, report, g_MGLOutputParamas >>
        /\ UNCHANGED othervars

\* Arrays of three elements (the storage holds `limit` elements at most) and
\* the counts and limits they are formatted with.
IntArray3   == << 1, -2, 30 >>
EnumArray3  == << 6912, 7, 6914 >>
Int64Array3 == << 5, -7, 2147483647 >>
Counts      == { 0, 3, 4 }
Limits      == { 1, 3 }

\* mglNextParamIntegerArray(&out, "A", val, count, limit, to_hex)
Fmt_NextParamIntegerArray ==
    \E count \in Counts, limit \in Limits, to_hex \in {0, 1} :
        /\ pc = "fmt"
        /\ out.index < MaxStates
        /\ out' = mglNextParamIntegerArray(out, << 65 >>, IntArray3, count, limit, to_hex)
        /\ params' = Append(params,
              [kind |-> "integer_array", val |-> IntArray3, count |-> count,
               limit |-> limit, to_hex |-> to_hex])
        /\ UNCHANGED << pc, caller, fmt_arg, formatting, report, g_MGLOutputParamas >>
        /\ UNCHANGED othervars

\* mglNextParamEnumArray(&out, "A", val, count, limit, mglPolygonModeStr)
Fmt_NextParamEnumArrayLimit ==
    \E count \in Counts, limit \in Limits :
        /\ pc = "fmt"
        /\ out.index < MaxStates
        /\ out' = mglNextParamEnumArray(out, << 65 >>, EnumArray3, count, limit,
                                        "mglPolygonModeStr")
        /\ params' = Append(params,
              [kind |-> "enum_array_limit", val |-> EnumArray3, count |-> count,
               limit |-> limit, proc |-> "mglPolygonModeStr"])
        /\ UNCHANGED << pc, caller, fmt_arg, formatting, report, g_MGLOutputParamas >>
        /\ UNCHANGED othervars

\* mglNextParamInteger64Array(&out, "A", val, count, limit)
Fmt_NextParamInteger64Array ==
    \E count \in Counts, limit \in Limits :
        /\ pc = "fmt"
        /\ out.index < MaxStates
        /\ out' = mglNextParamInteger64Array(out, << 65 >>, Int64Array3, count, limit)
        /\ params' = Append(params,
              [kind |-> "integer64_array", val |-> Int64Array3, count |-> count,
               limit |-> limit])
        /\ UNCHANGED << pc, caller, fmt_arg, formatting, report, g_MGLOutputParamas >>
        /\ UNCHANGED othervars

\* Bitfields: none of the bits, bits 0 and 2, bit 3 alone, bits 0 and 31;
\* and the numbers of bits tested.
BitVals   == { 0, 5, 8, -2147483647 }
BitCounts == { 3, 32 }

\* mglNextParamBitfield(&out, "A", val, count, mglContextFlagBitStr)
Fmt_NextParamBitfield ==
    \E val \in BitVals, count \in BitCounts :
        /\ pc = "fmt"
        /\ out.index < MaxStates
        /\ out' = mglNextParamBitfield(out, << 65 >>, val, count, "mglContextFlagBitStr")
        /\ params' = Append(params,
              [kind |-> "bitfield", val |-> << val >>, count |-> count,
               proc |-> "mglContextFlagBitStr"])
        /\ UNCHANGED << pc, caller, fmt_arg, formatting, report, g_MGLOutputParamas >>
        /\ UNCHANGED othervars

\* 32-bit values: 0, 0xBEEF, 0x12345678, 0x7FFFFFFF, 0xFFFFFFFF, 0x80000000.
HexVals == { 0, 48879, 305419896, 2147483647, -1, (0 - 2147483647) - 1 }

\* mglNextParamIntegerHex(&out, "A", val)
Fmt_NextParamIntegerHex ==
    \E val \in HexVals :
        /\ pc = "fmt"
        /\ out.index < MaxStates
        /\ out' = mglNextParamIntegerHex(out, << 65 >>, val)
        /\ params' = Append(params, [kind |-> "hex", val |-> << val >>])
        /\ UNCHANGED << pc, caller, fmt_arg, formatting, report, g_MGLOutputParamas >>
        /\ UNCHANGED othervars

NextFmt ==
    \/ Fmt_NextParamIntegerHex
    \/ Fmt_NextParamBitfield
    \/ Fmt_NextParamEnum
    \/ Fmt_NextParamEnumArray
    \/ Fmt_NextParamIntegerArray
    \/ Fmt_NextParamEnumArrayLimit
    \/ Fmt_NextParamInteger64Array

SpecFmt == InitFmt /\ [][NextFmt]_vars

(***************************************************************************)
(* C9.                                                                     *)
(***************************************************************************)
\* "0x" followed by the 8 uppercase hexadecimal digits of the 32-bit code.
HexText(val) == << Chr.zero, Chr.x >> \o [k \in 1..8 |-> HexChar(Nibble(val, 8 - k))]

\* The text of an enum: its name, or without a name the hex text when
\* hex_fallback is set and the plain decimal rendering otherwise.
EnumText(proc, val) ==
    IF CallProc(proc, val) # NULL THEN CallProc(proc, val)
    ELSE IF formatting.enable_hex # 0 THEN HexText(val)
    ELSE SprintfI(val)

RECURSIVE JoinEnumTexts(_, _, _)
JoinEnumTexts(proc, val, k) ==
    IF k > Len(val) THEN << >>
    ELSE EnumText(proc, val[k])
         \o (IF k < Len(val) THEN << Chr.comma, Chr.sp >> ELSE << >>)
         \o JoinEnumTexts(proc, val, k + 1)

\* C9: an enum value without a resolver name is rendered as "0x" and 8
\* uppercase hex digits when hex_fallback is true and as plain decimal when
\* it is false, at every call site that formats an enum (mglNextParamEnum
\* and the elements of mglNextParamEnumArray).
C9_EnumFallback ==
    pc = "fmt" =>
        \A i \in Slots : i < out.index =>
            LET a == params[i + 1]
            IN  /\ a.kind = "enum" => ValueOf(i) = EnumText(a.proc, a.val[1])
                /\ a.kind = "enum_array" =>
                      ValueOf(i) = << 123, Chr.sp >> \o JoinEnumTexts(a.proc, a.val, 1)
                                   \o << Chr.sp, Chr.rbrace >>

\* The part of C9 the code meets: the rendering under hex_fallback = true.
C9_HexWhenEnabled ==
    (pc = "fmt" /\ formatting.enable_hex # 0) => C9_EnumFallback

(***************************************************************************)
(* The growable string on its own: one MGLStringInternal is initialised    *)
(* and then driven through resize and the three append operations.         *)
(* `strlog` keeps, for every operation applied, its arguments, the string  *)
(* before and after it and the number of allocations it made.              *)
(***************************************************************************)
\* Number of operations applied to the string after its initialisation.
MaxOps == 3

\* MGL_CALLOC calls of one mglStringInternalResize: the growing branch and
\* the shrinking branch that halves the capacity allocate a new buffer.
mglStringInternalResize_Allocs(s, len) ==
    IF len + 1 > s.cap THEN 1
    ELSE IF len < s.len /\ s.cap > MGL_STRING_MIN_CAPACITY /\ len < s.cap \div 2 THEN 1
    ELSE 0

\* Texts: "ABC", "XY", "Q", "XYZ" and a text of 15 characters.
Text == [abc |-> << 65, 66, 67 >>, xy |-> << 88, 89 >>, q |-> << 81 >>,
         xyz |-> << 88, 89, 90 >>,
         long |-> << 76, 77, 78, 79, 80, 81, 82, 83, 84, 85, 86, 87, 88, 89, 90 >>]

InitCaps    == { 0, 20 }
InitTexts   == { NULL, Text.abc }
ResizeLens  == { 0, 2, 16, 40 }
FillChars   == { 0, Chr.dot }
Appendices  == { << >>, Text.xy, Text.long }
SubOffsets  == { 1, 3 }
SubLengths  == { 0, 1, MGL_STRING_NPOS }
CStrs       == { NULL, << >>, Text.q }

reportvars == << pc, caller, fmt_arg, formatting, out, params, report, g_MGLOutputParamas >>

InitStr ==
    /\ pc = "str"
    /\ caller = "none"
    /\ fmt_arg = << >>
    /\ formatting = g_formattingDefault_RenderState
    /\ out = EmptyPairArray
    /\ params = << >>
    /\ report = NoReport
    /\ g_MGLOutputParamas = "NULL"
    /\ OtherIdle

Initialised == strlog # << >>
MayApply    == Initialised /\ Len(strlog) <= MaxOps

\* mglStringInternalInit(&str, init_cap)
Str_Init ==
    \E init_cap \in InitCaps :
        /\ pc = "str" /\ ~Initialised
        /\ str' = mglStringInternalInit(init_cap)
        /\ strlog' = << [op |-> "init", init_cap |-> init_cap, before |-> str,
                         after |-> str', allocs |-> 1] >>
        /\ UNCHANGED << reportvars, calls >>

\* mglStringInternalInitWith(&str, val)
Str_InitWith ==
    \E val \in InitTexts :
        /\ pc = "str" /\ ~Initialised
        /\ str' = mglStringInternalInitWith(val)
        /\ strlog' = << [op |-> "initWith", val |-> val, before |-> str,
                         after |-> str', allocs |-> 1] >>
        /\ UNCHANGED << reportvars, calls >>

\* mglStringInternalResize(&str, len, chr)
Str_Resize ==
    \E len \in ResizeLens, chr \in FillChars :
        /\ pc = "str" /\ MayApply
        /\ str' = mglStringInternalResize(str, len, chr)
        /\ strlog' = Append(strlog,
              [op |-> "resize", len |-> len, chr |-> chr, before |-> str,
               after |-> str', allocs |-> mglStringInternalResize_Allocs(str, len)])
        /\ UNCHANGED << reportvars, calls >>

\* mglStringInternalAppend(&str, &appendix)
Str_Append ==
    \E text \in Appendices :
        LET appendix == mglStringInternalInitWith(text)
        IN  /\ pc = "str" /\ MayApply
            /\ str' = mglStringInternalAppend(str, appendix)
            /\ strlog' = Append(strlog,
                  [op |-> "append", appendix |-> appendix, before |-> str,
                   after |-> str',
                   allocs |-> IF appendix.len > 0
                              THEN mglStringInternalResize_Allocs(str, str.len + appendix.len)
                              ELSE 0])
            /\ UNCHANGED << reportvars, calls >>

\* mglStringInternalAppendSub(&str, &appendix, off, len), appendix "XYZ"
Str_AppendSub ==
    \E off \in SubOffsets, len \in SubLengths :
        LET appendix == mglStringInternalInitWith(Text.xyz)
            rhs_len  == MGL_MIN(len, appendix.len - off)
        IN  /\ pc = "str" /\ MayApply
            /\ str' = mglStringInternalAppendSub(str, appendix, off, len)
            /\ strlog' = Append(strlog,
                  [op |-> "appendSub", appendix |-> appendix, off |-> off, len |-> len,
                   before |-> str, after |-> str',
                   allocs |-> IF appendix.len > off /\ len > 0 /\ rhs_len > 0
                              THEN mglStringInternalResize_Allocs(str, str.len + rhs_len)
                              ELSE 0])
            /\ UNCHANGED << reportvars, calls >>

\* mglStringInternalAppendCStr(&str, appendix)
Str_AppendCStr ==
    \E appendix \in CStrs :
        /\ pc = "str" /\ MayApply
        /\ str' = mglStringInternalAppendCStr(str, appendix)
        /\ strlog' = Append(strlog,
              [op |-> "appendCStr", appendix |-> appendix, before |-> str,
               after |-> str',
               allocs |-> IF appendix # NULL /\ appendix # << >>
                          THEN mglStringInternalResize_Allocs(str, str.len + Len(appendix))
                          ELSE 0])
        /\ UNCHANGED << reportvars, calls >>

NextStr ==
    \/ Str_Init
    \/ Str_InitWith
    \/ Str_Resize
    \/ Str_Append
    \/ Str_AppendSub
    \/ Str_AppendCStr

SpecStr == InitStr /\ [][NextStr]_vars

(***************************************************************************)
(* C11.                                                                    *)
(***************************************************************************)
IsAppendOp(e) == e.op \in {"append", "appendSub", "appendCStr"}

\* The characters of a string: its bytes [0, len).
Chars(s) == SubSeq(s.buf, 1, s.len)

\* The text an operation of the log appends, from its arguments alone.
AppendedText(e) ==
    CASE e.op = "append" -> Chars(e.appendix)
      [] e.op = "appendSub" ->
            IF e.off >= e.appendix.len \/ e.len = 0 THEN << >>
            ELSE LET m == IF e.len < e.appendix.len - e.off
                          THEN e.len ELSE e.appendix.len - e.off
                 IN  SubSeq(Chars(e.appendix), e.off + 1, e.off + m)
      [] e.op = "appendCStr" -> IF e.appendix = NULL THEN << >> ELSE e.appendix
      [] OTHER -> << >>

\* The text the string is initialised with.
InitialText(e) ==
    IF e.op = "initWith" /\ e.val # NULL THEN e.val ELSE << >>

RECURSIVE Concatenation(_, _)
Concatenation(log, k) ==
    IF k > Len(log) THEN << >>
    ELSE (IF k = 1 THEN InitialText(log[k]) ELSE AppendedText(log[k]))
         \o Concatenation(log, k + 1)

OnlyAppends == Initialised /\ \A k \in 2..Len(strlog) : IsAppendOp(strlog[k])

\* C11: after any sequence of mglStringInternalAppend, AppendSub and
\* AppendCStr on a freshly initialised string, len is the sum of the lengths
\* appended, the bytes [0, len) are the concatenation of the appended texts
\* in order, and buf[len] is 0.
C11_AppendConcatenates ==
    (pc = "str" /\ OnlyAppends) =>
        /\ str.len = Len(Concatenation(strlog, 1))
        /\ Chars(str) = Concatenation(strlog, 1)
        /\ str.buf[str.len + 1] = 0

\* The three appends in one sequence, on "ABC", the last one growing the
\* buffer: "ABC" + "LMNOPQRSTUVWXYZ" + "YZ" + "Q".
C11_Witness ==
    /\ pc = "str" /\ OnlyAppends
    /\ Len(strlog) = 4
    /\ strlog[1].op = "initWith" /\ strlog[1].val # NULL
    /\ strlog[2].op = "append" /\ strlog[2].allocs = 1
    /\ strlog[3].op = "appendSub" /\ Len(AppendedText(strlog[3])) = 2
    /\ strlog[4].op = "appendCStr" /\ strlog[4].appendix = Text.q
    /\ str.len = 21 /\ str.cap = 32

(***************************************************************************)
(* C12.                                                                    *)
(***************************************************************************)
\* C12: for a string made by mglStringInternalInit or InitWith, after any
\* sequence of Resize, Append, AppendSub and AppendCStr (the lengths are
\* those for which len + 1 does not wrap size_t): buf[len] is 0,
\* cap >= len + 1 and cap >= MGL_STRING_MIN_CAPACITY; the allocation has
\* `cap` bytes.
C12_BufferInvariants ==
    (pc = "str" /\ Initialised) =>
        /\ Len(str.buf) = str.cap
        /\ str.cap >= str.len + 1
        /\ str.cap >= 16
        /\ str.buf[str.len + 1] = 0

\* A string grown by reallocation with a fill character, halved, and halved
\* again down to the minimal capacity.
C12_Witness ==
    /\ pc = "str"
    /\ Len(strlog) = 4
    /\ strlog[2].op = "resize" /\ strlog[2].chr # 0 /\ strlog[2].after.cap = 41
    /\ strlog[3].op = "resize" /\ strlog[3].after.cap = 20
    /\ strlog[4].op = "resize" /\ strlog[4].len = 2
    /\ str.cap = 16 /\ str.len = 2

\* A string shortened in place and then appended to.
C12_WitnessInPlace ==
    /\ pc = "str"
    /\ Len(strlog) = 3
    /\ strlog[1].op = "initWith" /\ strlog[1].val # NULL
    /\ strlog[2].op = "resize" /\ strlog[2].len = 2 /\ strlog[2].allocs = 0
    /\ strlog[3].op = "appendCStr" /\ strlog[3].appendix = Text.q

(***************************************************************************)
(* C13.                                                                    *)
(***************************************************************************)
ResizesOfLog == {k \in 1..Len(strlog) : strlog[k].op = "resize"}

\* C13: a resize to a smaller length reallocates when the new length is
\* below cap / 2 and cap is above MGL_STRING_MIN_CAPACITY, and the capacity
\* becomes max(MGL_STRING_MIN_CAPACITY, cap / 2) with the kept bytes copied;
\* otherwise the capacity and the allocation stay and only the terminator is
\* written.  A resize to a length in [len, cap) never reallocates.
C13_ShrinkPolicy ==
    pc = "str" =>
        \A k \in ResizesOfLog :
            LET e == strlog[k]
                b == e.before
                a == e.after
            IN  /\ e.len < b.len =>
                      IF e.len < b.cap \div 2 /\ b.cap > 16
                      THEN /\ e.allocs = 1
                           /\ a.cap = (IF b.cap \div 2 > 16 THEN b.cap \div 2 ELSE 16)
                           /\ SubSeq(a.buf, 1, e.len) = SubSeq(b.buf, 1, e.len)
                           /\ a.buf[e.len + 1] = 0
                      ELSE /\ e.allocs = 0
                           /\ a.cap = b.cap
                           /\ a.buf = [b.buf EXCEPT ![e.len + 1] = 0]
                /\ (e.len >= b.len /\ e.len < b.cap) =>
                      /\ e.allocs = 0
                      /\ a.cap = b.cap

\* The cases in one run: a shrink below half of a capacity of 41 (to 20), a
\* growth inside the capacity, and a shrink that stays in place.
C13_Witness ==
    /\ pc = "str"
    /\ \E k \in ResizesOfLog :
          LET e == strlog[k]
          IN  e.len < e.before.len /\ e.before.cap = 41 /\ e.after.cap = 20
    /\ \E k \in ResizesOfLog :
          LET e == strlog[k]
          IN  e.len > e.before.len /\ e.len < e.before.cap

\* A shrink to exactly half of a capacity of 32 stays in place.
C13_WitnessHalf ==
    /\ pc = "str"
    /\ \E k \in ResizesOfLog :
          LET e == strlog[k]
          IN  /\ e.before.cap = 32 /\ e.before.len = 17 /\ e.len = 16
              /\ e.after.cap = 32

(***************************************************************************)
(* C14.                                                                    *)
(***************************************************************************)
\* The length an operation of the log resizes the string to, and its fill.
NewLength(e) ==
    IF e.op = "resize" THEN e.len ELSE e.before.len + Len(AppendedText(e))

FillChar(e) == IF e.op = "resize" THEN e.chr ELSE 0

Resizing(e) ==
    \/ e.op = "resize"
    \/ IsAppendOp(e) /\ AppendedText(e) # << >>

GrowthsOfLog ==
    {k \in 1..Len(strlog) :
        Resizing(strlog[k]) /\ NewLength(strlog[k]) + 1 > strlog[k].before.cap}

\* C14: when a resize, or an append that resizes, needs len + 1 > cap, the
\* new capacity is exactly max(len + 1, 2 * cap), the bytes [0, old len) are
\* kept, and the positions [old len, len) hold the fill character when it is
\* not 0.
C14_GrowthPolicy ==
    pc = "str" =>
        \A k \in GrowthsOfLog :
            LET e == strlog[k]
                b == e.before
                a == e.after
                n == NewLength(e)
            IN  /\ e.allocs = 1
                /\ a.cap = (IF n + 1 > 2 * b.cap THEN n + 1 ELSE 2 * b.cap)
                /\ SubSeq(a.buf, 1, b.len) = SubSeq(b.buf, 1, b.len)
                /\ FillChar(e) # 0 =>
                      \A i \in (b.len + 1)..n : a.buf[i] = FillChar(e)

\* Growth to len + 1 (40 + 1 > 2 * 16) by a resize with a fill character,
\* then growth by doubling (2 * 41 > 42 + 1) by an append.
C14_Witness ==
    /\ pc = "str"
    /\ \E k \in GrowthsOfLog :
          LET e == strlog[k]
          IN  e.op = "resize" /\ e.chr # 0 /\ e.before.len = 3 /\ e.after.cap = 41
    /\ \E k \in GrowthsOfLog :
          LET e == strlog[k]
          IN  IsAppendOp(e) /\ e.before.cap = 41 /\ e.after.cap = 82

\* Growth by doubling: a resize to 16 of a string of capacity 16.
C14_WitnessDoubling ==
    /\ pc = "str"
    /\ \E k \in GrowthsOfLog :
          LET e == strlog[k]
          IN  e.op = "resize" /\ e.before.cap = 16 /\ e.after.cap = 32

(***************************************************************************)
(* C15.                                                                    *)
(***************************************************************************)
AppendSubsOfLog == {k \in 1..Len(strlog) : strlog[k].op = "appendSub"}

\* C15: mglStringInternalAppendSub(dst, src, off, len) with off >= src.len
\* or len = 0 leaves len, cap and the bytes of dst unchanged; otherwise
\* exactly min(len, src.len - off) bytes of src from off on are appended.
C15_AppendSub ==
    pc = "str" =>
        \A k \in AppendSubsOfLog :
            LET e == strlog[k]
                b == e.before
                a == e.after
                src == e.appendix
                m == IF e.len < src.len - e.off THEN e.len ELSE src.len - e.off
            IN  IF e.off >= src.len \/ e.len = 0
                THEN a = b
                ELSE /\ a.len = b.len + m
                     /\ SubSeq(a.buf, 1, b.len) = SubSeq(b.buf, 1, b.len)
                     /\ \A i \in 1..m : a.buf[b.len + i] = src.buf[e.off + i]
                     /\ a.buf[a.len + 1] = 0

\* On "ABC": off = 3 = src.len (no-op), then off = 1 and len = 1 ("Y"), then
\* off = 1 and a len beyond the end ("YZ"): "ABCYYZ".
C15_Witness ==
    /\ pc = "str"
    /\ Len(strlog) = 4
    /\ strlog[1].op = "initWith" /\ strlog[1].val # NULL
    /\ \A k \in 2..4 : strlog[k].op = "appendSub"
    /\ strlog[2].off = 3 /\ strlog[2].len = 1
    /\ strlog[3].off = 1 /\ strlog[3].len = 1
    /\ strlog[4].off = 1 /\ strlog[4].len = MGL_STRING_NPOS
    /\ Chars(str) = << 65, 66, 67, 89, 89, 90 >>

\* len = 0 with an offset inside the source is a no-op.
C15_WitnessZeroLength ==
    /\ pc = "str"
    /\ \E k \in AppendSubsOfLog :
          strlog[k].off = 1 /\ strlog[k].len = 0 /\ strlog[k].before.len = 3

(***************************************************************************)
(* C16.                                                                    *)
(***************************************************************************)
ArrayKinds == {"integer_array", "enum_array_limit", "integer64_array"}

\* The text of element k of an array argument.
ElementText(a, k) ==
    CASE a.kind = "integer_array" ->
            IF a.to_hex # 0 THEN HexText(a.val[k]) ELSE SprintfI(a.val[k])
      [] a.kind = "enum_array_limit" ->
            IF CallProc(a.proc, a.val[k]) # NULL
            THEN CallProc(a.proc, a.val[k]) ELSE HexText(a.val[k])
      [] OTHER -> SprintfI(a.val[k])

\* The texts of the elements k .. n, separated by ", ".
RECURSIVE JoinElements(_, _, _)
JoinElements(a, k, n) ==
    IF k > n THEN << >>
    ELSE ElementText(a, k)
         \o (IF k < n THEN << Chr.comma, Chr.sp >> ELSE << >>)
         \o JoinElements(a, k + 1, n)

TruncationMarker == << 44, 32, 46, 46, 46 >>

\* C16: the integer, enum and 64-bit integer array formatters render exactly
\* min(count, limit) elements, separated by ", " and enclosed in "{ " and
\* " }", and the ", ..." marker (followed by at most one space) is present if
\* and only if count > limit.
C16_ArrayFormat ==
    pc = "fmt" =>
        \A i \in Slots : (i < out.index /\ params[i + 1].kind \in ArrayKinds) =>
            LET a == params[i + 1]
                n == IF a.count < a.limit THEN a.count ELSE a.limit
            IN  /\ \E marker \in {<< >>, TruncationMarker, TruncationMarker \o << Chr.sp >>} :
                      /\ ValueOf(i) = << 123, Chr.sp >> \o JoinElements(a, 1, n)
                                      \o marker \o << Chr.sp, Chr.rbrace >>
                      /\ marker # << >> <=> a.count > a.limit
                /\ StrStr(ValueOf(i), TruncationMarker) <=> a.count > a.limit

\* The three formatters, truncated (count 4, limit 3 and 1) and not
\* (count = limit = 3), in decimal and in hex.
C16_Witness ==
    /\ pc = "fmt"
    /\ out.index = 2
    /\ params[1].kind = "integer_array" /\ params[1].to_hex = 1
    /\ params[1].count = 4 /\ params[1].limit = 3
    /\ params[2].kind = "integer64_array"
    /\ params[2].count = 3 /\ params[2].limit = 3
    /\ ValueOf(1) = << 123, 32, 53, 44, 32, 45, 55, 44, 32,
                       50, 49, 52, 55, 52, 56, 51, 54, 52, 55, 32, 125 >>

\* An enum array cut to one element, and an empty integer array.
C16_WitnessEnum ==
    /\ pc = "fmt"
    /\ out.index = 2
    /\ params[1].kind = "enum_array_limit"
    /\ params[1].count = 3 /\ params[1].limit = 1
    /\ params[2].kind = "integer_array" /\ params[2].count = 0
    /\ ValueOf(1) = << 123, 32, 32, 125 >>

(***************************************************************************)
(* C17.                                                                    *)
(***************************************************************************)
\* The bits among 0 .. count - 1 that are set in a 32-bit value.
SetBits(val, count) ==
    {i \in 0..(count - 1) : IF i = 31 THEN val < 0 ELSE (val \div (2 ^ i)) % 2 = 1}

\* The k-th smallest element (k from 1) of a set of numbers.
KthBit(S, k) == CHOOSE i \in S : Cardinality({j \in S : j < i}) = k - 1

Joiner == << Chr.sp, 124, Chr.sp >>

\* A text split at every " | ".
RECURSIVE SplitAtJoiner(_, _, _)
SplitAtJoiner(v, from, k) ==
    IF k > Len(v) THEN << SubSeq(v, from, Len(v)) >>
    ELSE IF k + 2 <= Len(v) /\ SubSeq(v, k, k + 2) = Joiner
    THEN << SubSeq(v, from, k - 1) >> \o SplitAtJoiner(v, k + 3, k + 3)
    ELSE SplitAtJoiner(v, from, k + 1)

IsToken(tok) == tok # << >> /\ \A q \in 1..Len(tok) : tok[q] \notin {Chr.sp, 124}

\* C17: the bits 0 .. N - 1 are tested in ascending order and every set bit
\* gives one token, the tokens joined by " | " (set bits - 1 joiners, none
\* leading or trailing); the token of a bit the resolver names is that name;
\* the value is "0" when none of the bits 0 .. N - 1 is set.
C17_Bitfield ==
    pc = "fmt" =>
        \A i \in Slots : (i < out.index /\ params[i + 1].kind = "bitfield") =>
            LET a == params[i + 1]
                bits == SetBits(a.val[1], a.count)
                toks == SplitAtJoiner(ValueOf(i), 1, 1)
            IN  IF bits = {}
                THEN ValueOf(i) = << Chr.zero >>
                ELSE /\ Len(toks) = Cardinality(bits)
                     /\ CountChar(ValueOf(i), 124) = Cardinality(bits) - 1
                     /\ \A k \in 1..Len(toks) :
                           /\ IsToken(toks[k])
                           /\ CallProc(a.proc, BitFlag(KthBit(bits, k))) # NULL =>
                                 toks[k] = CallProc(a.proc, BitFlag(KthBit(bits, k)))
                           /\ CallProc(a.proc, BitFlag(KthBit(bits, k))) = NULL =>
                                 /\ Len(toks[k]) = 10
                                 /\ SubSeq(toks[k], 1, 2) = << Chr.zero, Chr.x >>

\* Bits 0 and 2 of 5 among three bits: the two names and one joiner; and a
\* value whose only set bit (3) is outside the three bits tested: "0".
C17_Witness ==
    /\ pc = "fmt"
    /\ out.index = 2
    /\ params[1].kind = "bitfield" /\ params[1].val = << 5 >> /\ params[1].count = 3
    /\ ValueOf(0) = mglContextFlagBitStr(1) \o Joiner \o mglContextFlagBitStr(4)
    /\ params[2].kind = "bitfield" /\ params[2].val = << 8 >> /\ params[2].count = 3
    /\ ValueOf(1) = << Chr.zero >>

\* Bits 0 and 31 among 32 bits: the name of bit 0, one joiner, a hex token.
C17_WitnessSignBit ==
    /\ pc = "fmt"
    /\ out.index = 1
    /\ params[1].kind = "bitfield" /\ params[1].val = << -2147483647 >>
    /\ params[1].count = 32
    /\ CountChar(ValueOf(0), 124) = 1
    /\ Len(ValueOf(0)) = Len(mglContextFlagBitStr(1)) + 3 + 10

(***************************************************************************)
(* C18.                                                                    *)
(***************************************************************************)
\* The value of an uppercase hexadecimal digit, -1 for any other character.
HexDigitValue(ch) ==
    IF ch >= 48 /\ ch <= 57 THEN ch - 48
    ELSE IF ch >= 65 /\ ch <= 70 THEN ch - 55
    ELSE -1

\* The number four hexadecimal digits spell.
FourDigits(d) ==
    ((HexDigitValue(d[1]) * 16 + HexDigitValue(d[2])) * 16 + HexDigitValue(d[3])) * 16
    + HexDigitValue(d[4])

\* C18: mglEnumToHex renders every 32-bit unsigned value as exactly 10
\* characters, "0x" and 8 uppercase hexadecimal digits, zero-padded on the
\* left without spaces, whose numeric value is the input (compared by halves
\* of 16 bits).
C18_HexText ==
    pc = "fmt" =>
        \A i \in Slots : (i < out.index /\ params[i + 1].kind = "hex") =>
            LET v == ValueOf(i)
                val == params[i + 1].val[1]
            IN  /\ Len(v) = 10
                /\ SubSeq(v, 1, 2) = << Chr.zero, Chr.x >>
                /\ \A q \in 3..10 : HexDigitValue(v[q]) >= 0
                /\ FourDigits(SubSeq(v, 3, 6)) = (val \div 65536) % 65536
                /\ FourDigits(SubSeq(v, 7, 10)) = val % 65536

\* 0xBEEF is "0x0000BEEF" and (unsigned)-1 is "0xFFFFFFFF".
C18_Witness ==
    /\ pc = "fmt"
    /\ out.index = 2
    /\ params[1].kind = "hex" /\ params[1].val = << 48879 >>
    /\ ValueOf(0) = << 48, 120, 48, 48, 48, 48, 66, 69, 69, 70 >>
    /\ params[2].kind = "hex" /\ params[2].val = << -1 >>
    /\ ValueOf(1) = << 48, 120, 70, 70, 70, 70, 70, 70, 70, 70 >>

\* 0 is "0x00000000" and 0x80000000 is "0x80000000".
C18_WitnessExtremes ==
    /\ pc = "fmt"
    /\ out.index = 2
    /\ params[1].kind = "hex" /\ params[1].val = << 0 >>
    /\ ValueOf(0) = << 48, 120, 48, 48, 48, 48, 48, 48, 48, 48 >>
    /\ params[2].kind = "hex" /\ params[2].val[1] < -2147483647
    /\ ValueOf(1) = << 48, 120, 56, 48, 48, 48, 48, 48, 48, 48 >>

(***************************************************************************)
(* Concurrent report calls: two threads are inside mglPrintStringPairs,    *)
(* each with its own table and options, and take the steps of the function *)
(* in any interleaving.  The only variable they share is the static        *)
(* g_MGLOutputParamas.                                                     *)
(***************************************************************************)
Threads == {1, 2}

\* Mutant: the sort context is set and the permutation sorted in any order.
SortsByContext_Always(options) == TRUE

\* if (formatting->order == MGLFormattingOrderSorted)
SortsByContext(options) == options.order = MGLFormattingOrderSorted

\* The table of a call: two records, the values "1" and "22".
ConcTable(par1, par2) ==
    mglNextParamString(mglNextParamString(EmptyPairArray, par1, << 49 >>),
                       par2, << 50, 50 >>)

ConcTables == {ConcTable(par1, par2) : par1 \in ParNames, par2 \in ParNames}

ConcFormattings ==
    [separator : {Chr.dot}, distance : {1}, array_limit : {200},
     order : {MGLFormattingOrderDefault, MGLFormattingOrderSorted},
     enable_hex : {1}, filter : {NULL}]

\* A call that has measured its table and is about to order it.
ConcCalls ==
    [pc : {"order"}, out : ConcTables, formatting : ConcFormattings,
     out_permutations : {IdentityPermutation}, report : {NoReport},
     touched : {FALSE}]

InitConc ==
    /\ pc = "conc"
    /\ caller = "none"
    /\ fmt_arg = << >>
    /\ formatting = g_formattingDefault_RenderState
    /\ out = EmptyPairArray
    /\ params = << >>
    /\ report = NoReport
    /\ g_MGLOutputParamas = "NULL"
    /\ str = mglStringInternalReset
    /\ strlog = << >>
    /\ calls \in [Threads -> ConcCalls]

concframe == << pc, caller, fmt_arg, formatting, out, params, report, str, strlog >>

\* g_MGLOutputParamas = out.first;
Conc_SetContext(t) ==
    /\ calls[t].pc = "order"
    /\ SortsByContext(calls[t].formatting)
    /\ g_MGLOutputParamas' = calls[t].out.first
    /\ calls' = [calls EXCEPT ![t].pc = "sort", ![t].touched = TRUE]
    /\ UNCHANGED concframe

\* The order is not MGLFormattingOrderSorted: the permutation stays as it is.
Conc_KeepOrder(t) ==
    /\ calls[t].pc = "order"
    /\ ~SortsByContext(calls[t].formatting)
    /\ calls' = [calls EXCEPT ![t].pc = "merge"]
    /\ UNCHANGED << concframe, g_MGLOutputParamas >>

\* qsort(...): the comparator reads whatever g_MGLOutputParamas points to.
\* While another call is about to set the context, the write can land in
\* the middle of the sort (a data race): any permutation can come out.
Conc_QSort(t) ==
    /\ calls[t].pc = "sort"
    /\ \E p \in (IF \E u \in Threads \ {t} :
                        calls[u].pc = "order" /\ SortsByContext(calls[u].formatting)
                 THEN IndexPermutations
                 ELSE QSort(g_MGLOutputParamas)) :
          calls' = [calls EXCEPT ![t].pc = "merge", ![t].out_permutations = p]
    /\ UNCHANGED << concframe, g_MGLOutputParamas >>

\* The merge loop and the return.
Conc_Merge(t) ==
    /\ calls[t].pc = "merge"
    /\ calls' = [calls EXCEPT
                    ![t].pc = "done",
                    ![t].report = mglPrintStringPairs(calls[t].out, calls[t].formatting,
                                                      calls[t].out_permutations)]
    /\ UNCHANGED << concframe, g_MGLOutputParamas >>

NextConc ==
    \E t \in Threads :
        \/ Conc_SetContext(t)
        \/ Conc_KeepOrder(t)
        \/ Conc_QSort(t)
        \/ Conc_Merge(t)

SpecConc == InitConc /\ [][NextConc]_vars

(***************************************************************************)
(* C19.                                                                    *)
(***************************************************************************)
InsertionOrdered(t) == calls[t].formatting.order = MGLFormattingOrderDefault

\* The text a call returned.
ConcText(t) == CStr(calls[t].report.s.buf)

\* C19: a report call in insertion order neither reads nor writes
\* g_MGLOutputParamas, and whatever the interleaving with other calls its
\* output is the one it gives when run alone; only calls in sorted order
\* touch the shared context.
C19_InsertionOrderIsolated ==
    pc = "conc" =>
        \A t \in Threads :
            /\ calls[t].touched => ~InsertionOrdered(t)
            /\ InsertionOrdered(t) =>
                  /\ calls[t].pc # "sort"
                  /\ calls[t].pc = "done" =>
                        ConcText(t) \in ReportsOf(calls[t].out, calls[t].formatting)
            /\ (\A u \in Threads : InsertionOrdered(u)) => g_MGLOutputParamas = "NULL"

\* Two insertion-ordered calls on different tables: the second has returned
\* while the first is still before its merge loop.
C19_Witness ==
    /\ pc = "conc"
    /\ \A t \in Threads : InsertionOrdered(t)
    /\ calls[1].out # calls[2].out
    /\ calls[1].pc = "merge"
    /\ calls[2].pc = "done"
    /\ Len(ConcText(2)) > 0

\* The sorted path is where the calls interfere: a sorted call has returned
\* a report it cannot return when run alone.
C19_WitnessSortedInterferes ==
    /\ pc = "conc"
    /\ \E t \in Threads :
          /\ ~InsertionOrdered(t)
          /\ calls[t].pc = "done"
          /\ ConcText(t) \notin ReportsOf(calls[t].out, calls[t].formatting)

(***************************************************************************)
(* C20.                                                                    *)
(***************************************************************************)
\* A value with a newline and `indent` separators put after each comma.
RECURSIVE Reindent(_, _, _)
Reindent(v, k, indent) ==
    IF k > Len(v) THEN << >>
    ELSE << v[k] >>
         \o (IF v[k] = Chr.comma
             THEN << Chr.nl >> \o Copies(indent, formatting.separator)
             ELSE << >>)
         \o Reindent(v, k + 1, indent)

WrappedChunks ==
    {k \in 1..Len(report.chunks) :
        HasValue(report.chunks[k].slot) /\ IsWrapped(report.chunks[k].slot)}

\* C20 as stated: each continuation line of a wrapped value starts with
\* exactly (name length + column_width) separators before its segment.
C20_Original ==
    Done =>
        \A k \in WrappedChunks :
            LET i == report.chunks[k].slot
            IN  ChunkText(report.chunks[k]) =
                    NameOf(i) \o Padding(i)
                    \o Reindent(ValueOf(i), 1, Len(NameOf(i)) + report.max_par_len)
                    \o << Chr.nl >>

\* C20 amended: each continuation line of a wrapped value starts with
\* exactly (name length + padding count + 1) separators before its segment:
\* one more than the offset at which the value starts on the first line of
\* the record.
C20_Indentation ==
    Done =>
        \A k \in WrappedChunks :
            LET i == report.chunks[k].slot
            IN  ChunkText(report.chunks[k]) =
                    NameOf(i) \o Padding(i)
                    \o Reindent(ValueOf(i), 1, Len(NameOf(i)) + Len(Padding(i)) + 1)
                    \o << Chr.nl >>

\* ("AA", "{1,2,3}") with distance 2 and separator '.':
\* "AA..{1,\n.....2,\n.....3}\n".
C20_Witness ==
    /\ Done
    /\ formatting.distance = 2
    /\ out.index = 1
    /\ NameOf(0) = << 65, 65 >>
    /\ ReportText = << 65, 65, 46, 46, 123, 49, 44, 10,
                       46, 46, 46, 46, 46, 50, 44, 10,
                       46, 46, 46, 46, 46, 51, 125, 10 >>

(***************************************************************************)
(* C21.                                                                    *)
(***************************************************************************)
\* C21: in mglNextParamBitfield the token of a set bit i whose flag the
\* resolver does not name is the fixed-width hex text of the flag of that
\* bit alone, 2^i.
C21_PerBitFallback ==
    pc = "fmt" =>
        \A i \in Slots : (i < out.index /\ params[i + 1].kind = "bitfield") =>
            LET a == params[i + 1]
                bits == SetBits(a.val[1], a.count)
                toks == SplitAtJoiner(ValueOf(i), 1, 1)
            IN  \A k \in 1..Cardinality(bits) :
                    CallProc(a.proc, BitFlag(KthBit(bits, k))) = NULL =>
                        /\ k <= Len(toks)
                        /\ toks[k] = HexText(BitFlag(KthBit(bits, k)))

\* The fallback token is the hex text of the whole bitfield.
C21_WholeValueFallback ==
    pc = "fmt" =>
        \A i \in Slots : (i < out.index /\ params[i + 1].kind = "bitfield") =>
            LET a == params[i + 1]
                bits == SetBits(a.val[1], a.count)
                toks == SplitAtJoiner(ValueOf(i), 1, 1)
            IN  \A k \in 1..Cardinality(bits) :
                    CallProc(a.proc, BitFlag(KthBit(bits, k))) = NULL =>
                        /\ k <= Len(toks)
                        /\ toks[k] = HexText(a.val[1])

(***************************************************************************)
(* C22.                                                                    *)
(***************************************************************************)
FilledSlots == {i \in Slots : i < out.index}

\* C22: the sort runs over all slots of the table; a slot whose name is
\* absent (NULL buffer) comes after every slot with a name, so the first
\* `index` positions of the permutation are exactly the indices of the
\* filled records.  Only the indices are permuted: every emitted line is the
\* record that stands at the permuted index of the table.
C22_AbsentNamesLast ==
    (Done /\ formatting.order = MGLFormattingOrderSorted) =>
        LET p == report.out_permutations
        IN  /\ p \in IndexPermutations
            /\ \A i, j \in Slots :
                  (out.first[p[i]].buf # NULL /\ out.first[p[j]].buf = NULL) => i < j
            /\ {p[i] : i \in FilledSlots} = FilledSlots
            /\ \A i \in FilledSlots : out.first[i].buf # NULL
            /\ \A i \in Slots \ FilledSlots : out.first[i].buf = NULL
            /\ ChunksBeginWithName
            /\ \A k \in 1..Len(report.chunks) : EmittedSlot(k) \in FilledSlots

\* A sorted report of a table with one record and one empty slot.
C22_Witness ==
    /\ Done
    /\ formatting.order = MGLFormattingOrderSorted
    /\ out.index = 1
    /\ \E i \in Slots : out.first[i].buf = NULL
    /\ Len(report.chunks) = 1
    /\ report.out_permutations[0] = 0

(***************************************************************************)
(* C23.                                                                    *)
(***************************************************************************)
\* C23: the sort context is transient: once the report call has returned,
\* g_MGLOutputParamas no longer refers to the name array of that call.
C23_ContextTransient ==
    Done => g_MGLOutputParamas = "NULL"

\* What the code does: after a sorted call has returned the context still
\* refers to the name array of that call, whose buffers have been released.
C23_ContextLeftSet ==
    (Done /\ formatting.order = MGLFormattingOrderSorted) =>
        /\ g_MGLOutputParamas = "out.first"
        /\ \A i \in FilledSlots : report.freed_first[i] = 1

C24_EqualNamesAdjacent ==
    (Done /\ formatting.order = MGLFormattingOrderSorted) =>
        \A k, l \in 1..Len(report.chunks) :
            (k < l /\ NameOf(EmittedSlot(k)) = NameOf(EmittedSlot(l))) =>
                \A m \in k..l : NameOf(EmittedSlot(m)) = NameOf(EmittedSlot(k))

(***************************************************************************)
(* The number of records a report call adds to its table.  Only the index  *)
(* of the table is followed: pc is "count", `out` is [index |-> n] and     *)
(* `params` holds the snapshot, the GL header the library was built with   *)
(* and the position in mglPrintRenderState.                                *)
(***************************************************************************)
\* #define MGL_MAX_NUM_RENDER_STATES 264: the size of out_par and out_val.
MGL_MAX_NUM_RENDER_STATES == 264

\* #define MGL_VERSION(MAJOR, MINOR) (((MAJOR) << 16) | (MINOR)), for
\* 0 <= MAJOR < 2^15 and 0 <= MINOR < 2^16.
MGL_VERSION(MAJOR, MINOR) == MAJOR * 65536 + MINOR

\* #define MGL_VERSION_MIN(MAJOR, MINOR)
MGL_VERSION_MIN(rs, MAJOR, MINOR) ==
    MGL_VERSION(rs.iMajorVersion, rs.iMinorVersion) >= MGL_VERSION(MAJOR, MINOR)

\* The version blocks of mglPrintRenderState after GL_VERSION_1_0, in the
\* order of the code.  avail: the records of the branch
\* `if (MGL_VERSION_MIN(major, minor))` (the same number whether or not
\* MENTAL_GL_GETINTEGERI_V and MENTAL_GL_GETINTEGER64I_V are defined);
\* unavail: the MGL_PARAM_UNAVAIL records of the else branch.
RenderStateBlocks ==
    << [major |-> 1, minor |-> 1, avail |->  6, unavail |->  6],
       [major |-> 1, minor |-> 2, avail |-> 12, unavail |-> 12],
       [major |-> 1, minor |-> 3, avail |-> 10, unavail |-> 10],
       [major |-> 1, minor |-> 4, avail |->  6, unavail |->  6],
       [major |-> 1, minor |-> 5, avail |->  2, unavail |->  2],
       [major |-> 2, minor |-> 0, avail |-> 35, unavail |-> 35],
       [major |-> 2, minor |-> 1, avail |->  2, unavail |->  2],
       [major |-> 3, minor |-> 0, avail |-> 17, unavail |-> 17],
       [major |-> 3, minor |-> 1, avail |-> 18, unavail |-> 18],
       [major |-> 3, minor |-> 2, avail |-> 15, unavail |-> 15],
       [major |-> 3, minor |-> 3, avail |->  2, unavail |->  2],
       [major |-> 4, minor |-> 0, avail |->  4, unavail |->  1],
       [major |-> 4, minor |-> 1, avail |-> 16, unavail |-> 16],
       [major |-> 4, minor |-> 2, avail |->  7, unavail |->  7],
       [major |-> 4, minor |-> 3, avail |-> 37, unavail |-> 36],
       [major |-> 4, minor |-> 5, avail |->  2, unavail |->  2] >>

\* #ifdef GL_VERSION_<major>_<minor>: a GL header of version `gl_header`
\* defines the macros of every version up to its own.
GLVersionDefined(gl_header, b) ==
    MGL_VERSION(gl_header.major, gl_header.minor) >= MGL_VERSION(b.major, b.minor)

\* Whether the `if` branch of block b runs.
VersionBranchTaken(b) ==
    /\ GLVersionDefined(params.gl_header, b)
    /\ MGL_VERSION_MIN(params.rs, b.major, b.minor)

\* Mutant: the block after `else` runs whether or not the branch was taken.
BlockRecords_NoElse(b, taken) ==
    IF taken THEN b.avail + b.unavail ELSE b.unavail

\* if (MGL_VERSION_MIN(..)) { <avail records> } else { <unavail records> }
BlockRecords(b, taken) ==
    IF taken THEN b.avail ELSE b.unavail

\* n calls of mglNextParam... or mglNextHeadline: ++(str_array->index) each.
NextRecords(str_array, n) == [str_array EXCEPT !.index = @ + n]

\* The snapshots, GL headers and options explored.
Snapshots == [iMajorVersion : 0..5, iMinorVersion : 0..6]

GLHeaders ==
    { [major |-> 1, minor |-> 0] }
        \cup { [major |-> RenderStateBlocks[k].major, minor |-> RenderStateBlocks[k].minor] :
                  k \in DOMAIN RenderStateBlocks }

CountFormattingArgs ==
    { << >>,
      << [g_formattingDefault_RenderState EXCEPT !.order = MGLFormattingOrderSorted] >> }

InitCount ==
    /\ pc = "count"
    /\ caller \in { "mglPrintRenderState", "mglPrintBindingPoints" }
    /\ fmt_arg \in CountFormattingArgs
    /\ formatting = IF fmt_arg = << >>
                    THEN (IF caller = "mglPrintRenderState"
                          THEN g_formattingDefault_RenderState
                          ELSE g_formattingDefault_BindingPoints)
                    ELSE fmt_arg[1]
    /\ out = [index |-> 0]
    /\ params \in [rs : Snapshots, gl_header : GLHeaders, block : {0}, at : {"begin"}]
    /\ report = NoReport
    /\ g_MGLOutputParamas = "NULL"
    /\ OtherIdle

countframe == << pc, caller, fmt_arg, formatting, report, g_MGLOutputParamas >>

\* The records of GL_VERSION_1_0: no headline and no version test.
Count_RenderState_1_0 ==
    /\ pc = "count"
    /\ caller = "mglPrintRenderState"
    /\ params.at = "begin"
    /\ out' = NextRecords(out, 57)
    /\ params' = [params EXCEPT !.block = 1, !.at = "headline"]
    /\ UNCHANGED << countframe, othervars >>

\* if (formatting->order == MGLFormattingOrderDefault) mglNextHeadline(&out, ...)
Count_RenderState_Headline ==
    /\ pc = "count"
    /\ params.at = "headline"
    /\ out' = NextRecords(out, IF formatting.order = MGLFormattingOrderDefault
                               THEN 1 ELSE 0)
    /\ params' = [params EXCEPT !.at = "block"]
    /\ UNCHANGED << countframe, othervars >>

\* Where mglPrintRenderState stands after block k.
AfterBlock(k) ==
    IF k < Len(RenderStateBlocks)
    THEN [params EXCEPT !.block = k + 1, !.at = "headline"]
    ELSE [params EXCEPT !.at = "return"]

\* if (MGL_VERSION_MIN(major, minor)) { ... }
Count_RenderState_Avail ==
    /\ pc = "count"
    /\ params.at = "block"
    /\ VersionBranchTaken(RenderStateBlocks[params.block])
    /\ out' = NextRecords(out, BlockRecords(RenderStateBlocks[params.block], TRUE))
    /\ params' = AfterBlock(params.block)
    /\ UNCHANGED << countframe, othervars >>

\* else { MGL_PARAM_UNAVAIL(...); ... }
Count_RenderState_Unavail ==
    /\ pc = "count"
    /\ params.at = "block"
    /\ ~VersionBranchTaken(RenderStateBlocks[params.block])
    /\ out' = NextRecords(out, BlockRecords(RenderStateBlocks[params.block], FALSE))
    /\ params' = AfterBlock(params.block)
    /\ UNCHANGED << countframe, othervars >>

\* The ten mglNextParamIntegerArray calls of mglPrintBindingPoints.
Count_BindingPoints ==
    /\ pc = "count"
    /\ caller = "mglPrintBindingPoints"
    /\ params.at = "begin"
    /\ out' = NextRecords(out, 10)
    /\ params' = [params EXCEPT !.at = "return"]
    /\ UNCHANGED << countframe, othervars >>

NextCount ==
    \/ Count_RenderState_1_0
    \/ Count_RenderState_Headline
    \/ Count_RenderState_Avail
    \/ Count_RenderState_Unavail
    \/ Count_BindingPoints

SpecCount == InitCount /\ [][NextCount]_vars

(***************************************************************************)
(* C25.                                                                    *)
(***************************************************************************)
\* C25: for every snapshot version, every GL header and either order, the
\* number of records mglPrintRenderState and mglPrintBindingPoints have
\* added never exceeds MGL_MAX_NUM_RENDER_STATES; the records are written
\* at the indices 0 .. index - 1, so every add is within the name and
\* value arrays.
C25_RecordsWithinTable ==
    pc = "count" =>
        /\ out.index <= MGL_MAX_NUM_RENDER_STATES
        /\ out.index - 1 < MGL_MAX_NUM_RENDER_STATES

\* A snapshot of GL 4.5 or later in the default order fills the table to
\* its last slot.
C25_Witness ==
    /\ pc = "count"
    /\ caller = "mglPrintRenderState"
    /\ params.at = "return"
    /\ MGL_VERSION_MIN(params.rs, 4, 5)
    /\ formatting.order = MGLFormattingOrderDefault
    /\ out.index = MGL_MAX_NUM_RENDER_STATES

\* mglPrintBindingPoints has added its ten records.
C25_WitnessBindingPoints ==
    /\ pc = "count"
    /\ caller = "mglPrintBindingPoints"
    /\ params.at = "return"
    /\ out.index = 10

(***************************************************************************)
(* C26.                                                                    *)
(***************************************************************************)
\* C26: after mglStringInternalResize(s, n, c) the length field of the
\* buffer equals n, whichever branch ran: growth with reallocation, growth
\* in place, shrink with reallocation, shrink in place.
C26_LengthIsRequested ==
    pc = "str" =>
        \A k \in ResizesOfLog : strlog[k].after.len = strlog[k].len

\* What the code does: the length field equals n except after a shrink in
\* place, which writes the terminator at n and leaves the field as it was,
\* so that the text up to the terminator has n bytes and the field says more.
C26_LengthExceptShrinkInPlace ==
    pc = "str" =>
        \A k \in ResizesOfLog :
            LET e == strlog[k]
                b == e.before
                a == e.after
                inplace == /\ e.len + 1 <= b.cap
                           /\ e.len < b.len
                           /\ ~(b.cap > MGL_STRING_MIN_CAPACITY /\ e.len < b.cap \div 2)
            IN  /\ a.len = (IF inplace THEN b.len ELSE e.len)
                /\ a.buf[e.len + 1] = 0
                /\ (inplace /\ \A i \in 1..e.len : b.buf[i] # 0) => Len(CStr(a.buf)) = e.len

(***************************************************************************)
(* C27.                                                                    *)
(***************************************************************************)
Sign(x) == IF x < 0 THEN -1 ELSE IF x > 0 THEN 1 ELSE 0

\* C27: mglCompareOutputPair is a consistent ordering over the slots of the
\* table the sort context points to: sign(cmp(a, b)) = -sign(cmp(b, a)) for
\* all slots a, b, and cmp(a, a) = 0, also when both names are absent.
C27_ConsistentOrdering ==
    pc \in {"fill", "done"} =>
        \A a, b \in Slots :
            /\ Sign(mglCompareOutputPair(out.first, a, b))
                  = -Sign(mglCompareOutputPair(out.first, b, a))
            /\ mglCompareOutputPair(out.first, a, a) = 0

\* What the code does: the ordering is consistent on every pair with at
\* least one name present and on a present name with itself; with the left
\* name absent the answer is 1 whatever the right one is, so two absent
\* names each compare greater than the other, and an absent name compares
\* greater than itself.
C27_ConsistentWhereNamed ==
    pc \in {"fill", "done"} =>
        \A a, b \in Slots :
            /\ (out.first[a].buf # NULL \/ out.first[b].buf # NULL) =>
                  Sign(mglCompareOutputPair(out.first, a, b))
                      = -Sign(mglCompareOutputPair(out.first, b, a))
            /\ out.first[a].buf # NULL => mglCompareOutputPair(out.first, a, a) = 0
            /\ out.first[a].buf = NULL => mglCompareOutputPair(out.first, a, b) = 1

(***************************************************************************)
(* C28.                                                                    *)
(***************************************************************************)
\* C28: for every emitted record, headlines included, whatever the filter,
\* the order and the table, the padding count max_par_len - name.len of the
\* emission loop is not negative (the unsigned subtraction does not wrap),
\* and it is the number of separators written after the name.
C28_PaddingNotNegative ==
    Done =>
        /\ report.max_par_len = MaxParLen(out, formatting)
        /\ \A k \in 1..Len(report.chunks) :
              LET i == EmittedSlot(k)
                  cur_spaces_len == report.max_par_len - out.first[i].len
                  n == out.first[i].len
              IN  /\ cur_spaces_len >= 0
                  /\ report.chunks[k].to - report.chunks[k].from >= n + cur_spaces_len
                  /\ SubSeq(ChunkText(report.chunks[k]), n + 1, n + cur_spaces_len)
                        = Copies(cur_spaces_len, formatting.separator)

\* A headline is emitted as the longest name with distance 0, its padding
\* count being 0, next to a shorter name that is padded.
C28_Witness ==
    /\ Done
    /\ formatting.distance = 0
    /\ formatting.filter = NULL
    /\ Len(report.chunks) = 2
    /\ \E k \in 1..2 :
          /\ ~HasValue(EmittedSlot(k))
          /\ out.first[EmittedSlot(k)].len = report.max_par_len
    /\ \E k \in 1..2 :
          /\ HasValue(EmittedSlot(k))
          /\ out.first[EmittedSlot(k)].len < report.max_par_len

\* With a filter, in sorted order: the longer name is filtered out and the
\* width is that of the emitted record alone.
C28_WitnessFiltered ==
    /\ Done
    /\ formatting.order = MGLFormattingOrderSorted
    /\ formatting.filter # NULL
    /\ formatting.distance = 0
    /\ out.index = 2
    /\ Len(report.chunks) = 1
    /\ \E i \in FilledSlots : out.first[i].len > report.max_par_len
    /\ out.first[EmittedSlot(1)].len = report.max_par_len

(***************************************************************************)
(* C29.                                                                    *)
(***************************************************************************)
\* The part of an emitted line after the name and the padding, without the
\* newline that ends the line.
ValuePart(k) ==
    LET i == EmittedSlot(k)
        t == ChunkText(report.chunks[k])
    IN  SubSeq(t, Len(NameOf(i)) + Len(Padding(i)) + 1, Len(t) - 1)

\* The text with each newline and the `indent` bytes that follow it removed.
RECURSIVE StripBreaks(_, _, _)
StripBreaks(t, k, indent) ==
    IF k > Len(t) THEN << >>
    ELSE IF t[k] = Chr.nl
         THEN StripBreaks(t, k + 1 + indent, indent)
         ELSE << t[k] >> \o StripBreaks(t, k + 1, indent)

\* Every byte removed after a newline is a separator.
OnlyIndentationStripped(t, indent) ==
    \A k \in 1..Len(t) :
        t[k] = Chr.nl =>
            /\ k + indent <= Len(t)
            /\ \A j \in (k + 1)..(k + indent) : t[j] = formatting.separator

\* C29: wrapping loses and duplicates nothing: for every wrapped value, the
\* segments written to the output, i.e. the value part of the line with each
\* inserted newline and the indentation after it removed, are exactly the
\* value text; one newline is inserted per comma of the value.
C29_WrapLossless ==
    Done =>
        \A k \in WrappedChunks :
            LET i == EmittedSlot(k)
                indent == Len(NameOf(i)) + Len(Padding(i)) + 1
                t == ValuePart(k)
            IN  /\ OnlyIndentationStripped(t, indent)
                /\ StripBreaks(t, 1, indent) = ValueOf(i)
                /\ CountChar(t, Chr.nl) = CountChar(ValueOf(i), Chr.comma)

\* A wrapped value of three elements is emitted on three lines.
C29_Witness ==
    /\ Done
    /\ \E k \in WrappedChunks :
          /\ CountChar(ValueOf(EmittedSlot(k)), Chr.comma) = 2
          /\ CountChar(ValuePart(k), Chr.nl) = 2
          /\ Len(ValuePart(k)) > Len(ValueOf(EmittedSlot(k)))

(***************************************************************************)
(* mglPrintStringPairs statement by statement: pc is "pass" and `params`   *)
(* is the frame of the call: the position `at`, the loop counters, the     *)
(* locals, and in `acc` the output string with the record of what the      *)
(* merge loop did.  `iterations` counts the iterations of the running wrap *)
(* loop.                                                                   *)
(***************************************************************************)
PassParNames == { << 65 >>, << 66 >> }
PassValTexts == { << 49 >>, << 123, 55, 125 >>, << 123, 49, 44, 50, 44, 51, 125 >> }

\* The tables of n records.
RECURSIVE PassTablesOf(_)
PassTablesOf(n) ==
    IF n = 0 THEN { EmptyPairArray }
    ELSE LET shorter == PassTablesOf(n - 1)
         IN  { mglNextParamString(t, par, val) :
                  t \in shorter, par \in PassParNames, val \in PassValTexts }
                \cup { mglNextHeadline(t, headline) : t \in shorter, headline \in Headlines }

PassTables == UNION { PassTablesOf(n) : n \in 0..MaxStates }

PassFormattings ==
    [separator : {Chr.dot}, distance : {0}, array_limit : {1, 7},
     order : {MGLFormattingOrderDefault, MGLFormattingOrderSorted},
     enable_hex : {1}, filter : Filters]

InitPass ==
    /\ pc = "pass"
    /\ caller = "none"
    /\ fmt_arg = << >>
    /\ formatting \in PassFormattings
    /\ out \in PassTables
    /\ params = [at |-> "measure", i |-> 0, max_par_len |-> 0, out_cap |-> 0,
                 out_permutations |-> IdentityPermutation,
                 from |-> 0, off |-> 0, next_off |-> 0, iterations |-> 0,
                 acc |-> [s            |-> mglStringInternalReset,
                          chunks       |-> << >>,
                          freed_first  |-> [i \in Slots |-> 0],
                          freed_second |-> [i \in Slots |-> 0]]]
    /\ report = NoReport
    /\ g_MGLOutputParamas = "NULL"
    /\ OtherIdle

passframe == << pc, caller, fmt_arg, formatting, out >>

\* The first loop and max_par_len += formatting->distance.
Pass_Measure ==
    /\ pc = "pass"
    /\ params.at = "measure"
    /\ params' = [params EXCEPT !.at = "capacity",
                                !.max_par_len = MaxParLen(out, formatting)]
    /\ UNCHANGED << passframe, report, g_MGLOutputParamas, othervars >>

\* The second loop, and the allocation of the output string.
Pass_Capacity ==
    /\ pc = "pass"
    /\ params.at = "capacity"
    /\ LET out_cap == OutCap(out, formatting, params.max_par_len, 0, 0)
       IN  params' = [params EXCEPT !.at = "order",
                                    !.out_cap = out_cap,
                                    !.acc.s = mglStringInternalInit(out_cap)]
    /\ UNCHANGED << passframe, report, g_MGLOutputParamas, othervars >>

\* out_permutations[i] = i, and for the sorted order the context and qsort.
Pass_Order ==
    /\ pc = "pass"
    /\ params.at = "order"
    /\ \E p \in OutPermutations(out, formatting) :
          params' = [params EXCEPT !.at = "merge", !.i = 0, !.out_permutations = p]
    /\ g_MGLOutputParamas' =
          IF formatting.order = MGLFormattingOrderSorted
          THEN "out.first"
          ELSE g_MGLOutputParamas
    /\ UNCHANGED << passframe, report, othervars >>

\* int out_i = out_permutations[i];
out_i == params.out_permutations[params.i]

\* A record the filter rejects: on to the release of its strings.
Pass_Skip ==
    /\ pc = "pass"
    /\ params.at = "merge"
    /\ params.i < out.index
    /\ ~PassesFilter(out, formatting, out_i)
    /\ params' = [params EXCEPT !.at = "free"]
    /\ UNCHANGED << passframe, report, g_MGLOutputParamas, othervars >>

\* mglStringInternalAppend(s, cur_par);
Pass_Name ==
    /\ pc = "pass"
    /\ params.at = "merge"
    /\ params.i < out.index
    /\ PassesFilter(out, formatting, out_i)
    /\ params' = [params EXCEPT
                    !.at = "padding",
                    !.from = params.acc.s.len,
                    !.acc.s = mglStringInternalAppend(params.acc.s, out.first[out_i])]
    /\ UNCHANGED << passframe, report, g_MGLOutputParamas, othervars >>

\* const size_t cur_spaces_len = max_par_len - out.first[out_i].len;
cur_spaces_len == params.max_par_len - out.first[out_i].len

\* mglStringInternalResize(s, s->len + cur_spaces_len, formatting->separator);
\* then the test of the multi-line branch, with size_t off = 0, next_off = 0.
Pass_Padding ==
    /\ pc = "pass"
    /\ params.at = "padding"
    /\ params' = [params EXCEPT
                    !.at = IF WrapCondition(out.second[out_i], formatting)
                           THEN "wrap" ELSE "value",
                    !.off = 0,
                    !.next_off = 0,
                    !.iterations = 0,
                    !.acc.s = mglStringInternalResize(params.acc.s,
                                  params.acc.s.len + cur_spaces_len,
                                  formatting.separator)]
    /\ UNCHANGED << passframe, report, g_MGLOutputParamas, othervars >>

\* else mglStringInternalAppend(s, cur_val);
Pass_Value ==
    /\ pc = "pass"
    /\ params.at = "value"
    /\ params' = [params EXCEPT
                    !.at = "newline",
                    !.acc.s = mglStringInternalAppend(params.acc.s, out.second[out_i])]
    /\ UNCHANGED << passframe, report, g_MGLOutputParamas, othervars >>

\* next_off = mglStringInternalFindChar(cur_val, ',', off, MGL_STRING_NPOS);
FindNextComma ==
    mglStringInternalFindChar(out.second[out_i], Chr.comma, params.off, MGL_STRING_NPOS)

\* while (off < cur_val->len) with a comma found:
\* mglStringInternalAppendSub(s, cur_val, off, next_off - off + 1);
Pass_WrapElement ==
    /\ pc = "pass"
    /\ params.at = "wrap"
    /\ params.off < out.second[out_i].len
    /\ FindNextComma # MGL_STRING_NPOS
    /\ params' = [params EXCEPT
                    !.at = "break",
                    !.next_off = FindNextComma,
                    !.acc.s = mglStringInternalAppendSub(params.acc.s, out.second[out_i],
                                  params.off, FindNextComma - params.off + 1)]
    /\ UNCHANGED << passframe, report, g_MGLOutputParamas, othervars >>

\* mglStringInternalAppendCStr(s, "\n"); inside the wrap loop.
Pass_WrapNewline ==
    /\ pc = "pass"
    /\ params.at = "break"
    /\ params' = [params EXCEPT
                    !.at = "indent",
                    !.acc.s = mglStringInternalAppendCStr(params.acc.s, << Chr.nl >>)]
    /\ UNCHANGED << passframe, report, g_MGLOutputParamas, othervars >>

\* Mutant: the loop continues at the comma it has found.
WrapAdvance_Stuck(next_off) == next_off

\* off = next_off + 1;
WrapAdvance(next_off) == next_off + 1

\* mglStringInternalResize(s, s->len + cur_par->len + cur_spaces_len + 1, ...);
\* off = next_off + 1; and back to the test of the loop.
Pass_WrapIndent ==
    /\ pc = "pass"
    /\ params.at = "indent"
    /\ params' = [params EXCEPT
                    !.at = "wrap",
                    !.off = WrapAdvance(params.next_off),
                    !.iterations = @ + 1,
                    !.acc.s = mglStringInternalResize(params.acc.s,
                                  params.acc.s.len + out.first[out_i].len
                                      + cur_spaces_len + 1,
                                  formatting.separator)]
    /\ UNCHANGED << passframe, report, g_MGLOutputParamas, othervars >>

\* The end of the wrap loop: the iteration that finds no comma appends the
\* rest and leaves by `break`; or the test off < cur_val->len fails.
Pass_WrapLast ==
    /\ pc = "pass"
    /\ params.at = "wrap"
    /\ params.off < out.second[out_i].len => FindNextComma = MGL_STRING_NPOS
    /\ params' = [params EXCEPT
                    !.at = "newline",
                    !.next_off = IF params.off < out.second[out_i].len
                                 THEN MGL_STRING_NPOS ELSE @,
                    !.iterations = IF params.off < out.second[out_i].len
                                   THEN @ + 1 ELSE @,
                    !.acc.s = IF params.off < out.second[out_i].len
                              THEN mglStringInternalAppendSub(params.acc.s,
                                      out.second[out_i], params.off, MGL_STRING_NPOS)
                              ELSE @]
    /\ UNCHANGED << passframe, report, g_MGLOutputParamas, othervars >>

\* mglStringInternalAppendCStr(s, "\n"); at the end of the record.
Pass_Newline ==
    /\ pc = "pass"
    /\ params.at = "newline"
    /\ LET s1 == mglStringInternalAppendCStr(params.acc.s, << Chr.nl >>)
       IN  params' = [params EXCEPT
                        !.at = "free",
                        !.acc.s = s1,
                        !.acc.chunks =
                            Append(@, [slot    |-> out_i,
                                       from    |-> params.from,
                                       to      |-> s1.len,
                                       wrapped |-> WrapCondition(out.second[out_i],
                                                                 formatting)])]
    /\ UNCHANGED << passframe, report, g_MGLOutputParamas, othervars >>

\* The release of the two strings of the record, and ++i.
Pass_Free ==
    /\ pc = "pass"
    /\ params.at = "free"
    /\ params' = [params EXCEPT
                    !.at = "merge",
                    !.i = @ + 1,
                    !.acc = FreeStringParts(out, out_i, params.acc)]
    /\ UNCHANGED << passframe, report, g_MGLOutputParamas, othervars >>

\* return (MGLString)s;
Pass_Return ==
    /\ pc = "pass"
    /\ params.at = "merge"
    /\ params.i >= out.index
    /\ params' = [params EXCEPT !.at = "return"]
    /\ report' = [s                |-> params.acc.s,
                  max_par_len      |-> params.max_par_len,
                  out_permutations |-> params.out_permutations,
                  chunks           |-> params.acc.chunks,
                  freed_first      |-> params.acc.freed_first,
                  freed_second     |-> params.acc.freed_second]
    /\ UNCHANGED << passframe, g_MGLOutputParamas, othervars >>

NextPass ==
    \/ Pass_Measure
    \/ Pass_Capacity
    \/ Pass_Order
    \/ Pass_Skip
    \/ Pass_Name
    \/ Pass_Padding
    \/ Pass_Value
    \/ Pass_WrapElement
    \/ Pass_WrapNewline
    \/ Pass_WrapIndent
    \/ Pass_WrapLast
    \/ Pass_Newline
    \/ Pass_Free
    \/ Pass_Return

SpecPass == InitPass /\ [][NextPass]_vars

\* The call is the only thread of its report and runs statement after
\* statement: a statement that can be executed is executed.
SpecPassFair == SpecPass /\ WF_vars(NextPass)

(***************************************************************************)
(* C30.                                                                    *)
(***************************************************************************)
Returned == pc = "pass" /\ params.at = "return"

InWrapLoop == pc = "pass" /\ params.at \in {"wrap", "break", "indent"}

\* Each iteration of the wrap loop that continues leaves the offset larger.
OffsetAdvances ==
    (params.at = "indent" /\ params'.at = "wrap") => params'.off > params.off

\* The wrap loop has completed at most as many iterations as the value has
\* commas, and one more when it has ended.
IterationsBounded ==
    /\ InWrapLoop =>
          /\ params.iterations <= CountChar(CStr(out.second[out_i].buf), Chr.comma)
          /\ params.off <= out.second[out_i].len
    /\ (pc = "pass" /\ params.at = "newline") =>
          params.iterations <= CountChar(CStr(out.second[out_i].buf), Chr.comma) + 1

\* The steps taken end with the report of the call.
ReturnsTheReport ==
    Returned => report = mglPrintStringPairs(out, formatting, report.out_permutations)

\* C30: report assembly terminates: in the wrap loop the offset grows with
\* each iteration and there are at most (commas + 1) iterations per value,
\* and the pass measure, order, emit over the table reaches its return
\* statement, with the report of the table.
C30_Terminates ==
    /\ [][OffsetAdvances]_vars
    /\ []IterationsBounded
    /\ []ReturnsTheReport
    /\ <>Returned

\* The call has returned a report in which a value of three elements was
\* wrapped: three iterations of the wrap loop.
C30_Witness ==
    /\ Returned
    /\ params.iterations = 3
    /\ \E k \in 1..Len(report.chunks) : report.chunks[k].wrapped
    /\ ReportText # << >>

=============================================================================
